---------------------------- MODULE Spec2Model ----------------------------
(***************************************************************************)
(* A model of the Numix / MathScript compiler pipeline: parser, semantic   *)
(* analyzer, three-address code generator, optimizer and tree-walking      *)
(* interpreter, with the driver that sequences them.                       *)
(*                                                                         *)
(* C++ std::string values that the code takes apart (operands of the       *)
(* three-address code, lexemes, printed values) are sequences of           *)
(* one-character strings, so that tests such as result[0] == 't' and       *)
(* conversions such as std::to_string / std::stoi are computed, not        *)
(* assumed.  Opcodes, token types and tags, which the code only compares   *)
(* for equality, are TLA+ strings.                                         *)
(***************************************************************************)
EXTENDS Integers, Sequences, FiniteSets, TLC

VARIABLES
    pc,                 \* the phase main is about to run, or the optimizer pass
    ubCast,             \* what the build yields for static_cast<long long> of a
                        \* double that is infinite or not a number (undefined)
    ubParent,           \* what the global SymbolTable's parent holds: "null" or
                        \* "wild" (SymbolTableManager() reads current unset)
    source,             \* main: the text of the input file
    enableOptimization, \* main: cleared by the option -no-opt
    lexer,              \* main: the Lexer (its position and line counter)
    tokens,             \* main: the tokens the lexer has produced
    program,            \* main: what the parser returned
    semantic,           \* main: the SemanticAnalyzer after analyze()
    intermediateCode,   \* main: what the code generator returned
    finalCode,          \* main: the instruction list that is emitted
    executionResult,    \* main: what Interpreter::run returned
    interpreter,        \* main: the Interpreter after run()
    finalOutput,        \* main: the text written at the end
    stdout,             \* main: the phase banners printed so far
    exitStatus,         \* main: the value returned, NotExited before
    code,               \* Optimizer::code
    input,              \* the instruction list the Optimizer was constructed with
    round,              \* how many Optimizer instances have been run on the list
    first,              \* what the first optimize() returned
    manager,            \* a SymbolTableManager that is driven call by call
    returned,           \* the last call on manager: its arguments and result
    codegen,            \* main: the CodeGenerator, null until it is constructed
    typing              \* a SemanticAnalyzer that is given one statement whose
                        \* target and value have the two types drawn

vars ==
    <<pc, ubCast, ubParent, source, enableOptimization, lexer, tokens, program, semantic,
      intermediateCode, finalCode, executionResult, interpreter, finalOutput, stdout,
      exitStatus, code, input, round, first, manager, returned,
      codegen, typing>>

mainVars ==
    <<source, enableOptimization, lexer, tokens, program, semantic, intermediateCode,
      finalCode, executionResult, interpreter, finalOutput, stdout, exitStatus, codegen>>

optimizerVars == <<code, input, round, first>>

tableVars == <<manager, returned>>

typeVars == <<typing>>

\* Bind(v, F) is F(v), with v computed first: the local variable of the source
\* that holds v is the parameter of F
Bind(v, F(_)) ==
    [x \in {v} |-> F(x)][v]

----------------------------------------------------------------------------
(* Strings *)

Digits == <<"0", "1", "2", "3", "4", "5", "6", "7", "8", "9">>

IsDigit(c) == \E d \in 1..10 : Digits[d] = c

DigitVal(c) == (CHOOSE d \in 1..10 : Digits[d] = c) - 1

RECURSIVE NatToString(_)
NatToString(n) ==
    IF n < 10 THEN <<Digits[n + 1]>>
    ELSE NatToString(n \div 10) \o <<Digits[(n % 10) + 1]>>

\* std::to_string(int)
to_string(n) == IF n < 0 THEN <<"-">> \o NatToString(0 - n) ELSE NatToString(n)

RECURSIVE DigitsToNat(_, _)
DigitsToNat(s, acc) ==
    IF s = <<>> THEN acc
    ELSE DigitsToNat(Tail(s), acc * 10 + DigitVal(Head(s)))

\* std::stoi / std::stoll on an optional sign followed by digits
stoi(s) ==
    IF Head(s) = "-" THEN 0 - DigitsToNat(Tail(s), 0)
    ELSE IF Head(s) = "+" THEN DigitsToNat(Tail(s), 0)
    ELSE DigitsToNat(s, 0)

\* s.empty() is false and s[0] == c
StartsWith(s, c) == s # <<>> /\ s[1] = c

----------------------------------------------------------------------------
(* Three-address code *)

TAC(op, arg1, arg2, result, line) ==
    [op |-> op, arg1 |-> arg1, arg2 |-> arg2, result |-> result, line |-> line]

----------------------------------------------------------------------------
(* Optimizer *)

isConstant(value) ==
    IF value = <<>> THEN FALSE
    ELSE IF value[1] \in {"-", "+"} /\ Len(value) = 1 THEN FALSE
    ELSE Bind(IF value[1] \in {"-", "+"} THEN 2 ELSE 1, LAMBDA start :
             \A i \in start..Len(value) : IsDigit(value[i]))

\* C++ integer division truncates toward zero
TruncDiv(a, b) ==
    IF (a >= 0) = (b > 0) THEN (IF a >= 0 THEN a ELSE 0 - a) \div (IF b > 0 THEN b ELSE 0 - b)
    ELSE 0 - ((IF a >= 0 THEN a ELSE 0 - a) \div (IF b > 0 THEN b ELSE 0 - b))

TruncMod(a, b) == a - b * TruncDiv(a, b)

evaluateConstant(op, left, right) ==
    Bind(stoi(left), LAMBDA leftVal :
    Bind(stoi(right), LAMBDA rightVal :
        IF op = "+" THEN leftVal + rightVal
        ELSE IF op = "-" THEN leftVal - rightVal
        ELSE IF op = "*" THEN leftVal * rightVal
        ELSE IF op = "/" /\ rightVal # 0 THEN TruncDiv(leftVal, rightVal)
        ELSE IF op = "%" /\ rightVal # 0 THEN TruncMod(leftVal, rightVal)
        ELSE 0))

foldInstr(instr) ==
    IF instr.op \in {"+", "-", "*", "/"} /\ isConstant(instr.arg1) /\ isConstant(instr.arg2)
    THEN [instr EXCEPT !.op = "ASSIGN",
                       !.arg1 = to_string(evaluateConstant(instr.op, instr.arg1, instr.arg2)),
                       !.arg2 = <<>>]
    ELSE instr

constantFolding(c) == [i \in 1..Len(c) |-> foldInstr(c[i])]

\* constantMap is a function from the names it holds to their literal text
MapErase(m, k) == [x \in DOMAIN m \ {k} |-> m[x]]

MapPut(m, k, v) == [x \in DOMAIN m \cup {k} |-> IF x = k THEN v ELSE m[x]]

\* one iteration of the loop of constantPropagation: the rewritten instruction
propagateInstr(instr, constantMap) ==
    Bind(IF instr.arg1 \in DOMAIN constantMap THEN constantMap[instr.arg1] ELSE instr.arg1, LAMBDA a1 :
    Bind(IF instr.arg2 \in DOMAIN constantMap THEN constantMap[instr.arg2] ELSE instr.arg2, LAMBDA a2 :
        [instr EXCEPT !.arg1 = a1, !.arg2 = a2]))

\* ... and the map after it
trackConstant(instr, constantMap) ==
    IF instr.op = "ASSIGN" /\ isConstant(instr.arg1)
    THEN MapPut(constantMap, instr.result, instr.arg1)
    ELSE IF instr.op # "ASSIGN" THEN MapErase(constantMap, instr.result)
    ELSE constantMap

RECURSIVE propagateFrom(_, _, _)
propagateFrom(c, i, constantMap) ==
    IF i > Len(c) THEN <<>>
    ELSE Bind(propagateInstr(c[i], constantMap), LAMBDA instr :
             <<instr>> \o propagateFrom(c, i + 1, trackConstant(instr, constantMap)))

constantPropagation(c) == propagateFrom(c, 1, << >>)

\* first pass of deadCodeElimination
usedTemps(c) ==
    {c[i].arg1 : i \in {j \in 1..Len(c) : StartsWith(c[j].arg1, "t")}}
    \cup {c[i].arg2 : i \in {j \in 1..Len(c) : StartsWith(c[j].arg2, "t")}}

\* dead-code elimination that drops every instruction defining an unread
\* temporary, whatever its opcode
isDeadDefinition(instr, used) ==
    StartsWith(instr.result, "t") /\ instr.result \notin used

isDeadAssignment(instr, used) ==
    instr.op = "ASSIGN" /\ StartsWith(instr.result, "t") /\ instr.result \notin used

deadCodeElimination(c) ==
    LET used == usedTemps(c)
        keep(instr) == ~isDeadAssignment(instr, used)
    IN  SelectSeq(c, keep)

\* valueMap of the code is written and cleared but never read: it has no
\* effect on the list and is not part of the model
isRedundantAssignment(instr) == instr.op = "ASSIGN" /\ instr.arg1 = instr.result

removeRedundantAssignments(c) ==
    LET keep(instr) == ~isRedundantAssignment(instr)
    IN  SelectSeq(c, keep)

\* algebraic simplification without the rule x + 0
simplifyWithoutAddZero(instr) ==
    IF instr.op = "-" /\ instr.arg2 = <<"0">>
        THEN [instr EXCEPT !.op = "ASSIGN", !.arg2 = <<>>]
    ELSE IF instr.op = "*" /\ instr.arg2 = <<"1">>
        THEN [instr EXCEPT !.op = "ASSIGN", !.arg2 = <<>>]
    ELSE IF instr.op = "*" /\ (instr.arg1 = <<"0">> \/ instr.arg2 = <<"0">>)
        THEN [instr EXCEPT !.op = "ASSIGN", !.arg1 = <<"0">>, !.arg2 = <<>>]
    ELSE IF instr.op = "+" /\ instr.arg1 = <<"0">>
        THEN [instr EXCEPT !.op = "ASSIGN", !.arg1 = instr.arg2, !.arg2 = <<>>]
    ELSE IF instr.op = "*" /\ instr.arg1 = <<"1">>
        THEN [instr EXCEPT !.op = "ASSIGN", !.arg1 = instr.arg2, !.arg2 = <<>>]
    ELSE instr

simplifyInstr(instr) ==
    IF instr.op = "+" /\ instr.arg2 = <<"0">>
        THEN [instr EXCEPT !.op = "ASSIGN", !.arg2 = <<>>]
    ELSE IF instr.op = "-" /\ instr.arg2 = <<"0">>
        THEN [instr EXCEPT !.op = "ASSIGN", !.arg2 = <<>>]
    ELSE IF instr.op = "*" /\ instr.arg2 = <<"1">>
        THEN [instr EXCEPT !.op = "ASSIGN", !.arg2 = <<>>]
    ELSE IF instr.op = "*" /\ (instr.arg1 = <<"0">> \/ instr.arg2 = <<"0">>)
        THEN [instr EXCEPT !.op = "ASSIGN", !.arg1 = <<"0">>, !.arg2 = <<>>]
    ELSE IF instr.op = "+" /\ instr.arg1 = <<"0">>
        THEN [instr EXCEPT !.op = "ASSIGN", !.arg1 = instr.arg2, !.arg2 = <<>>]
    ELSE IF instr.op = "*" /\ instr.arg1 = <<"1">>
        THEN [instr EXCEPT !.op = "ASSIGN", !.arg1 = instr.arg2, !.arg2 = <<>>]
    ELSE instr

algebraicSimplification(c) == [i \in 1..Len(c) |-> simplifyInstr(c[i])]

optimize(c) ==
    deadCodeElimination(
        removeRedundantAssignments(
            algebraicSimplification(
                constantPropagation(
                    constantFolding(c)))))

----------------------------------------------------------------------------
(* Tokens and the abstract syntax tree *)

Token(type, lexeme, line) == [type |-> type, lexeme |-> lexeme, line |-> line]

\* a null unique_ptr
Null == [kind |-> "null"]

BinaryExpr(left, op, right) ==
    [kind |-> "Binary", left |-> left, op |-> op, right |-> right, line |-> op.line]

UnaryExpr(op, right) == [kind |-> "Unary", op |-> op, right |-> right, line |-> op.line]

LiteralExpr(value) == [kind |-> "Literal", value |-> value, line |-> value.line]

VariableExpr(name) == [kind |-> "Variable", name |-> name, line |-> name.line]

CallExpr(callee, arguments) ==
    [kind |-> "Call", callee |-> callee, arguments |-> arguments, line |-> callee.line]

\* the constructor tests its moved-from parameter, which is empty: line stays -1
SequenceExpr(elements) == [kind |-> "Sequence", elements |-> elements, line |-> 0 - 1]

\* as SequenceExpr: the moved-from parameter is tested, line stays -1
BlockStmt(statements) == [kind |-> "Block", statements |-> statements, line |-> 0 - 1]

DeclarationStmt(name, dataType, initializer) ==
    [kind |-> "Declaration", name |-> name, dataType |-> dataType,
     initializer |-> initializer, line |-> name.line]

AssignmentStmt(name, value) ==
    [kind |-> "Assignment", name |-> name, value |-> value, line |-> name.line]

\* the parser never passes a null condition
IfStmt(condition, thenBranch, elseBranch) ==
    [kind |-> "If", condition |-> condition, thenBranch |-> thenBranch,
     elseBranch |-> elseBranch, line |-> condition.line]

WhileStmt(condition, body) ==
    [kind |-> "While", condition |-> condition, body |-> body, line |-> condition.line]

\* the member is moved into before the parameter is tested: line stays -1
ReturnStmt(value) == [kind |-> "Return", value |-> value, line |-> 0 - 1]

ExpressionStmt(expression) ==
    [kind |-> "ExpressionStmt", expression |-> expression, line |-> 0 - 1]

FunctionDecl(name, parameters, returnType, body) ==
    [name |-> name, parameters |-> parameters, returnType |-> returnType,
     body |-> body, line |-> name.line]

----------------------------------------------------------------------------
(* Code generator *)

\* the generator's state: intermediateCode, tempCounter, labelCounter.  Its
\* symbolManager is written but never read for the instructions it emits.
GenInit == [code |-> <<>>, tempCounter |-> 0, labelCounter |-> 0]

Emit(g, instr) == [g EXCEPT !.code = Append(g.code, instr)]

getOperatorTAC(op) ==
    CASE op = "PLUS" -> "+"
      [] op = "MINUS" -> "-"
      [] op = "MULTIPLY" -> "*"
      [] op = "DIVIDE" -> "/"
      [] op = "MODULO" -> "%"
      [] op = "EQUALS" -> "=="
      [] op = "NOT_EQUALS" -> "!="
      [] op = "LESS" -> "<"
      [] op = "LESS_EQUAL" -> "<="
      [] op = "GREATER" -> ">"
      [] op = "GREATER_EQUAL" -> ">="
      [] op = "AND" -> "&&"
      [] op = "OR" -> "||"
      [] op = "NOT" -> "!"
      [] OTHER -> "?"

newTemp(g) == <<"t">> \o to_string(g.tempCounter)

newLabel(g) == <<"L">> \o to_string(g.labelCounter)

RECURSIVE generateExpression(_, _)
RECURSIVE generateCallArguments(_, _, _, _, _)
RECURSIVE generateSequenceElements(_, _, _, _, _)

\* the loop of generateCallExpression over the arguments from index i
generateCallArguments(g, arguments, i, args, line) ==
    IF i > Len(arguments) THEN [g |-> g, name |-> args]
    ELSE Bind(generateExpression(g, arguments[i]), LAMBDA r :
         Bind(Emit(r.g, TAC("PARAM", r.name, <<>>, <<>>, line)), LAMBDA g1 :
         Bind((IF args # <<>> THEN args \o <<",", " ">> ELSE args) \o r.name, LAMBDA args1 :
             generateCallArguments(g1, arguments, i + 1, args1, line))))

\* the loop of generateSequenceExpression over the elements from index i
generateSequenceElements(g, elements, i, result, line) ==
    IF i > Len(elements) THEN g
    ELSE Bind(generateExpression(g, elements[i]), LAMBDA r :
         Bind(Emit(r.g, TAC("STORE", r.name, to_string(i - 1), result, line)), LAMBDA g1 :
             generateSequenceElements(g1, elements, i + 1, result, line)))

generateExpression(g, expr) ==
    CASE expr.kind = "Binary" ->
            Bind(generateExpression(g, expr.left), LAMBDA l :
            Bind(generateExpression(l.g, expr.right), LAMBDA r :
            Bind(newTemp(r.g), LAMBDA result :
            Bind([r.g EXCEPT !.tempCounter = @ + 1], LAMBDA g1 :
                [g |-> Emit(g1, TAC(getOperatorTAC(expr.op.type), l.name, r.name, result, expr.line)),
                 name |-> result]))))
      [] expr.kind = "Unary" ->
            Bind(generateExpression(g, expr.right), LAMBDA r :
            Bind(newTemp(r.g), LAMBDA result :
            Bind([r.g EXCEPT !.tempCounter = @ + 1], LAMBDA g1 :
                [g |-> Emit(g1, TAC(getOperatorTAC(expr.op.type), r.name, <<>>, result, expr.line)),
                 name |-> result])))
      [] expr.kind = "Literal" -> [g |-> g, name |-> expr.value.lexeme]
      [] expr.kind = "Variable" -> [g |-> g, name |-> expr.name.lexeme]
      [] expr.kind = "Call" ->
            Bind(newTemp(g), LAMBDA result :
            Bind([g EXCEPT !.tempCounter = @ + 1], LAMBDA g1 :
            Bind(generateCallArguments(g1, expr.arguments, 1, <<>>, expr.line), LAMBDA a :
                [g |-> Emit(a.g, TAC("CALL", expr.callee.lexeme, a.name, result, expr.line)),
                 name |-> result])))
      [] expr.kind = "Sequence" ->
            Bind(newTemp(g), LAMBDA result :
            Bind(Emit([g EXCEPT !.tempCounter = @ + 1],
                      TAC("ASSIGN", <<"[", "]">>, <<>>, result, expr.line)), LAMBDA g1 :
                [g |-> generateSequenceElements(g1, expr.elements, 1, result, expr.line),
                 name |-> result]))
      [] OTHER -> [g |-> g, name |-> <<"e", "r", "r", "o", "r">>]

RECURSIVE generateStatement(_, _)
RECURSIVE generateStatements(_, _, _)

generateStatements(g, stmts, i) ==
    IF i > Len(stmts) THEN g
    ELSE generateStatements(generateStatement(g, stmts[i]), stmts, i + 1)

generateDeclaration(g, decl) ==
    IF decl.initializer # Null
    THEN Bind(generateExpression(g, decl.initializer), LAMBDA r :
             Emit(r.g, TAC("ASSIGN", r.name, <<>>, decl.name.lexeme, decl.line)))
    ELSE g

generateAssignment(g, assign) ==
    Bind(generateExpression(g, assign.value), LAMBDA r :
        Emit(r.g, TAC("ASSIGN", r.name, <<>>, assign.name.lexeme, assign.line)))

\* an if whose then branch falls through into the else branch
generateIfFallingThrough(g, ifStmt) ==
    Bind(generateExpression(g, ifStmt.condition), LAMBDA c :
    Bind(newLabel(c.g), LAMBDA elseLabel :
    Bind(newLabel([c.g EXCEPT !.labelCounter = @ + 1]), LAMBDA endLabel :
    Bind(Emit([c.g EXCEPT !.labelCounter = @ + 2],
              TAC("IF_FALSE", c.name, <<>>, elseLabel, ifStmt.line)), LAMBDA g1 :
    Bind(generateStatements(g1, ifStmt.thenBranch, 1), LAMBDA g2 :
    Bind(Emit(g2,
              TAC("LABEL", <<>>, <<>>, elseLabel, ifStmt.line)), LAMBDA g3 :
    Bind(generateStatements(g3, ifStmt.elseBranch, 1), LAMBDA g4 :
        Emit(g4, TAC("LABEL", <<>>, <<>>, endLabel, ifStmt.line)))))))))

generateIfStatement(g, ifStmt) ==
    Bind(generateExpression(g, ifStmt.condition), LAMBDA c :
    Bind(newLabel(c.g), LAMBDA elseLabel :
    Bind(newLabel([c.g EXCEPT !.labelCounter = @ + 1]), LAMBDA endLabel :
    Bind(Emit([c.g EXCEPT !.labelCounter = @ + 2],
              TAC("IF_FALSE", c.name, <<>>, elseLabel, ifStmt.line)), LAMBDA g1 :
    Bind(generateStatements(g1, ifStmt.thenBranch, 1), LAMBDA g2 :
    Bind(Emit(Emit(g2, TAC("GOTO", <<>>, <<>>, endLabel, ifStmt.line)),
              TAC("LABEL", <<>>, <<>>, elseLabel, ifStmt.line)), LAMBDA g3 :
    Bind(generateStatements(g3, ifStmt.elseBranch, 1), LAMBDA g4 :
        Emit(g4, TAC("LABEL", <<>>, <<>>, endLabel, ifStmt.line)))))))))

\* a while whose If jumps to the end label
generateWhileLeaving(g, whileStmt) ==
    Bind(newLabel(g), LAMBDA startLabel :
    Bind(newLabel([g EXCEPT !.labelCounter = @ + 1]), LAMBDA conditionLabel :
    Bind(newLabel([g EXCEPT !.labelCounter = @ + 2]), LAMBDA endLabel :
    Bind(Emit(Emit([g EXCEPT !.labelCounter = @ + 3],
                   TAC("GOTO", <<>>, <<>>, conditionLabel, whileStmt.line)),
              TAC("LABEL", <<>>, <<>>, startLabel, whileStmt.line)), LAMBDA g1 :
    Bind(generateStatements(g1, whileStmt.body, 1), LAMBDA g2 :
    Bind(Emit(g2, TAC("LABEL", <<>>, <<>>, conditionLabel, whileStmt.line)), LAMBDA g3 :
    Bind(generateExpression(g3, whileStmt.condition), LAMBDA c :
    Bind(Emit(c.g, TAC("IF", c.name, <<>>, endLabel, whileStmt.line)), LAMBDA g4 :
        Emit(g4, TAC("LABEL", <<>>, <<>>, endLabel, whileStmt.line))))))))))

generateWhileStatement(g, whileStmt) ==
    Bind(newLabel(g), LAMBDA startLabel :
    Bind(newLabel([g EXCEPT !.labelCounter = @ + 1]), LAMBDA conditionLabel :
    Bind(newLabel([g EXCEPT !.labelCounter = @ + 2]), LAMBDA endLabel :
    Bind(Emit(Emit([g EXCEPT !.labelCounter = @ + 3],
                   TAC("GOTO", <<>>, <<>>, conditionLabel, whileStmt.line)),
              TAC("LABEL", <<>>, <<>>, startLabel, whileStmt.line)), LAMBDA g1 :
    Bind(generateStatements(g1, whileStmt.body, 1), LAMBDA g2 :
    Bind(Emit(g2, TAC("LABEL", <<>>, <<>>, conditionLabel, whileStmt.line)), LAMBDA g3 :
    Bind(generateExpression(g3, whileStmt.condition), LAMBDA c :
    Bind(Emit(c.g, TAC("IF", c.name, <<>>, startLabel, whileStmt.line)), LAMBDA g4 :
        Emit(g4, TAC("LABEL", <<>>, <<>>, endLabel, whileStmt.line))))))))))

generateReturnStatement(g, returnStmt) ==
    IF returnStmt.value # Null
    THEN Bind(generateExpression(g, returnStmt.value), LAMBDA r :
             Emit(r.g, TAC("RETURN", r.name, <<>>, <<>>, returnStmt.line)))
    ELSE Emit(g, TAC("RETURN", <<>>, <<>>, <<>>, returnStmt.line))

\* a BlockStmt matches none of the casts and emits nothing
generateStatement(g, stmt) ==
    CASE stmt.kind = "Declaration" -> generateDeclaration(g, stmt)
      [] stmt.kind = "Assignment" -> generateAssignment(g, stmt)
      [] stmt.kind = "If" -> generateIfStatement(g, stmt)
      [] stmt.kind = "While" -> generateWhileStatement(g, stmt)
      [] stmt.kind = "Return" -> generateReturnStatement(g, stmt)
      [] stmt.kind = "ExpressionStmt" -> generateExpression(g, stmt.expression).g
      [] OTHER -> g

RECURSIVE generateParameters(_, _, _)
generateParameters(g, parameters, i) ==
    IF i > Len(parameters) THEN g
    ELSE generateParameters(
            Emit(g, TAC("ASSIGN", <<"p", "a", "r", "a", "m", "_">> \o parameters[i].first.lexeme,
                        <<>>, parameters[i].first.lexeme, parameters[i].first.line)),
            parameters, i + 1)

generateFunction(g, function) ==
    Bind(Emit(g, TAC("LABEL", <<>>, <<>>, function.name.lexeme, function.line)), LAMBDA g1 :
    Bind(generateParameters(g1, function.parameters, 1), LAMBDA g2 :
    Bind(generateStatements(g2, function.body, 1), LAMBDA g3 :
        IF function.returnType = "VOID"
        THEN Emit(g3, TAC("RETURN", <<>>, <<>>, <<>>, function.line))
        ELSE g3)))

RECURSIVE generateProgram(_, _, _)
generateProgram(g, functions, i) ==
    IF i > Len(functions) THEN g
    ELSE generateProgram(generateFunction(g, functions[i]), functions, i + 1)

\* a generate() that starts from the list and the counters the last run left
generateWithoutReset(g, prog) == generateProgram(g, prog.functions, 1)

\* generate() clears the list and resets both counters before it starts; it
\* returns a copy of the list, the code of the generator it leaves
generate(g, prog) ==
    generateProgram([g EXCEPT !.code = <<>>, !.tempCounter = 0, !.labelCounter = 0],
                    prog.functions, 1)

----------------------------------------------------------------------------
(* Parser *)

\* Parser::current counts from 0; tokens[current] is ts[current + 1].
\* The column of a token is carried but never read and is left out.
peek(ts, current) ==
    IF current >= Len(ts) THEN Token("END_OF_FILE", <<>>, 1) ELSE ts[current + 1]

peekNext(ts, current) ==
    IF current + 1 >= Len(ts) THEN Token("END_OF_FILE", <<>>, 1) ELSE ts[current + 2]

previous(ts, current) ==
    IF current = 0 THEN Token("END_OF_FILE", <<>>, 1) ELSE ts[current]

isAtEnd(ts, current) == peek(ts, current).type = "END_OF_FILE"

check(ts, current, type) ==
    IF isAtEnd(ts, current) THEN FALSE ELSE peek(ts, current).type = type

\* the position after advance()
advance(ts, current) == IF ~isAtEnd(ts, current) THEN current + 1 ELSE current

checkAny(ts, current, types) == \E type \in types : check(ts, current, type)

\* A grammar rule returns either the node it built and the position after
\* it, or the ParseError it threw and the position at which it was thrown.
Parsed(current, node) == [ok |-> TRUE, current |-> current, node |-> node]

\* throw ParseError(msg); line is the line appended to the message, or -1
Thrown(current, msg, line) ==
    [ok |-> FALSE, current |-> current, node |-> Null, msg |-> msg, line |-> line]

consume(ts, current, type, message) ==
    IF check(ts, current, type)
    THEN Parsed(advance(ts, current), previous(ts, advance(ts, current)))
    ELSE Thrown(current, message, peek(ts, current).line)

tokenToDataType(token) ==
    CASE token.type = "INT" \/ token.lexeme = <<"i", "n", "t">> -> "INT"
      [] token.type = "FLOAT_TYPE" \/ token.lexeme = <<"f", "l", "o", "a", "t">> -> "FLOAT"
      [] token.type = "BOOL" \/ token.lexeme = <<"b", "o", "o", "l">> -> "BOOL"
      [] token.type = "SEQUENCE"
            \/ token.lexeme = <<"s", "e", "q", "u", "e", "n", "c", "e">> -> "SEQUENCE"
      [] token.type = "PATTERN"
            \/ token.lexeme = <<"p", "a", "t", "t", "e", "r", "n">> -> "PATTERN"
      [] OTHER -> "UNKNOWN"

validTypeTokens == {"INT", "FLOAT_TYPE", "BOOL", "SEQUENCE", "PATTERN", "IDENTIFIER"}

PrintLexeme == <<"p", "r", "i", "n", "t">>

GetLexeme == <<"g", "e", "t">>

LengthLexeme == <<"l", "e", "n", "g", "t", "h">>

MapLexeme == <<"m", "a", "p">>

FilterLexeme == <<"f", "i", "l", "t", "e", "r">>

GenerateLexeme == <<"g", "e", "n", "e", "r", "a", "t", "e">>

InputLexeme == <<"i", "n", "p", "u", "t">>

MainLexeme == <<"m", "a", "i", "n">>

\* the same table with the additive and the multiplicative level exchanged
levelOpsExchanged(level) ==
    CASE level = 1 -> {"OR"}
      [] level = 2 -> {"AND"}
      [] level = 3 -> {"EQUALS", "NOT_EQUALS"}
      [] level = 4 -> {"LESS", "LESS_EQUAL", "GREATER", "GREATER_EQUAL"}
      [] level = 5 -> {"MULTIPLY", "DIVIDE", "MODULO"}
      [] level = 6 -> {"PLUS", "MINUS"}

\* the operator tokens each binary level matches, and the levels in order of
\* ascending precedence: parseLogicalOr, parseLogicalAnd, parseEquality,
\* parseComparison, parseTerm, parseFactor
levelOps(level) ==
    CASE level = 1 -> {"OR"}
      [] level = 2 -> {"AND"}
      [] level = 3 -> {"EQUALS", "NOT_EQUALS"}
      [] level = 4 -> {"LESS", "LESS_EQUAL", "GREATER", "GREATER_EQUAL"}
      [] level = 5 -> {"PLUS", "MINUS"}
      [] level = 6 -> {"MULTIPLY", "DIVIDE", "MODULO"}

RECURSIVE parseLevel(_, _, _)
RECURSIVE parseLevelLoop(_, _, _, _)
RECURSIVE parseUnary(_, _)
RECURSIVE parsePrimary(_, _)
RECURSIVE parseElements(_, _, _, _)
RECURSIVE parseStatement(_, _)
RECURSIVE parseBlockLoop(_, _, _)

\* the while (match(...)) loop of a binary level, expr being the left operand
parseLevelLoop(ts, current, level, expr) ==
    IF checkAny(ts, current, levelOps(level))
    THEN Bind(peek(ts, current), LAMBDA op :
         Bind(IF level = 6 THEN parseUnary(ts, advance(ts, current))
              ELSE parseLevel(ts, advance(ts, current), level + 1), LAMBDA right :
             IF right.ok
             THEN parseLevelLoop(ts, right.current, level, BinaryExpr(expr, op, right.node))
             ELSE right))
    ELSE Parsed(current, expr)

parseLevel(ts, current, level) ==
    Bind(IF level = 6 THEN parseUnary(ts, current)
         ELSE parseLevel(ts, current, level + 1), LAMBDA left :
        IF left.ok THEN parseLevelLoop(ts, left.current, level, left.node) ELSE left)

parseFactor(ts, current) == parseLevel(ts, current, 6)

parseTerm(ts, current) == parseLevel(ts, current, 5)

parseComparison(ts, current) == parseLevel(ts, current, 4)

parseEquality(ts, current) == parseLevel(ts, current, 3)

parseLogicalAnd(ts, current) == parseLevel(ts, current, 2)

parseLogicalOr(ts, current) == parseLevel(ts, current, 1)

parseExpression(ts, current) == parseLogicalOr(ts, current)

parseUnary(ts, current) ==
    IF checkAny(ts, current, {"MINUS", "NOT"})
    THEN Bind(peek(ts, current), LAMBDA op :
         Bind(parseUnary(ts, advance(ts, current)), LAMBDA right :
             IF right.ok THEN Parsed(right.current, UnaryExpr(op, right.node)) ELSE right))
    ELSE parsePrimary(ts, current)

\* the do-while loop shared by parseSequence and parseArguments: closing is
\* the bracket that ends the list; node is the list parsed
parseElements(ts, current, closing, elements) ==
    Bind(parseExpression(ts, current), LAMBDA e :
        IF ~e.ok THEN e
        ELSE IF check(ts, e.current, "COMMA") /\ ~check(ts, advance(ts, e.current), closing)
        THEN parseElements(ts, advance(ts, e.current), closing, Append(elements, e.node))
        ELSE Parsed(IF check(ts, e.current, "COMMA") THEN advance(ts, e.current) ELSE e.current,
                    Append(elements, e.node)))

parseSequence(ts, current) ==
    Bind(IF ~check(ts, current, "RBRACKET")
         THEN parseElements(ts, current, "RBRACKET", <<>>)
         ELSE Parsed(current, <<>>), LAMBDA l :
        IF ~l.ok THEN l
        ELSE IF ~check(ts, l.current, "RBRACKET")
        THEN Thrown(l.current, "Expected ']' after sequence elements", 0 - 1)
        ELSE Parsed(advance(ts, l.current), SequenceExpr(l.node)))

parseArguments(ts, current) ==
    Bind(IF ~check(ts, current, "RPAREN")
         THEN parseElements(ts, current, "RPAREN", <<>>)
         ELSE Parsed(current, <<>>), LAMBDA l :
        IF ~l.ok THEN l
        ELSE IF ~check(ts, l.current, "RPAREN")
        THEN Thrown(l.current, "Expected ')' after function arguments", 0 - 1)
        ELSE Parsed(advance(ts, l.current), l.node))

parsePrimary(ts, current) ==
    IF checkAny(ts, current, {"TRUE", "FALSE", "NUMBER", "FLOAT", "STRING"})
    THEN Parsed(advance(ts, current), LiteralExpr(peek(ts, current)))
    ELSE IF check(ts, current, "IDENTIFIER")
    THEN Bind(peek(ts, current), LAMBDA name :
         Bind(advance(ts, current), LAMBDA c1 :
             IF check(ts, c1, "LPAREN")
             THEN Bind(parseArguments(ts, advance(ts, c1)), LAMBDA a :
                      IF a.ok THEN Parsed(a.current, CallExpr(name, a.node)) ELSE a)
             ELSE IF check(ts, c1, "LBRACKET")
             THEN Bind(parseExpression(ts, advance(ts, c1)), LAMBDA index :
                      IF ~index.ok THEN index
                      ELSE Bind(consume(ts, index.current, "RBRACKET", "Expected ']' after index"), LAMBDA r :
                               IF ~r.ok THEN r
                               ELSE Parsed(r.current,
                                           CallExpr(Token("IDENTIFIER", GetLexeme, name.line),
                                                    <<VariableExpr(name), index.node>>))))
             ELSE Parsed(c1, VariableExpr(name))))
    ELSE IF check(ts, current, "LPAREN")
    THEN Bind(parseExpression(ts, advance(ts, current)), LAMBDA e :
             IF ~e.ok THEN e
             ELSE Bind(consume(ts, e.current, "RPAREN", "Expected ')' after expression"), LAMBDA r :
                      IF ~r.ok THEN r ELSE Parsed(r.current, e.node)))
    ELSE IF check(ts, current, "LBRACKET")
    THEN parseSequence(ts, advance(ts, current))
    ELSE Thrown(current, "Expected expression", 0 - 1)

\* the position after match(type): the token is consumed if it is there
matched(ts, current, type) ==
    IF check(ts, current, type) THEN advance(ts, current) ELSE current

parseBlockLoop(ts, current, statements) ==
    IF ~check(ts, current, "RBRACE") /\ ~isAtEnd(ts, current)
    THEN Bind(parseStatement(ts, current), LAMBDA stmt :
             IF stmt.ok
             THEN parseBlockLoop(ts, stmt.current, Append(statements, stmt.node))
             ELSE stmt)
    ELSE Parsed(current, statements)

parseBlock(ts, current) ==
    Bind(consume(ts, current, "LBRACE", "Expected '{' before block"), LAMBDA open :
        IF ~open.ok THEN open
        ELSE Bind(parseBlockLoop(ts, open.current, <<>>), LAMBDA body :
                 IF ~body.ok THEN body
                 ELSE Bind(consume(ts, body.current, "RBRACE", "Expected '}' after block"), LAMBDA close :
                          IF ~close.ok THEN close ELSE Parsed(close.current, body.node))))

parseDeclaration(ts, current) ==
    Bind(consume(ts, current, "IDENTIFIER", "Expected variable name"), LAMBDA name :
        IF ~name.ok THEN name
        ELSE Bind(consume(ts, name.current, "COLON", "Expected ':' after variable name"), LAMBDA colon :
                 IF ~colon.ok THEN colon
                 ELSE IF ~checkAny(ts, colon.current, validTypeTokens)
                 THEN Thrown(colon.current, "Expected variable type", 0 - 1)
                 ELSE Bind(tokenToDataType(peek(ts, colon.current)), LAMBDA type :
                      Bind(advance(ts, colon.current), LAMBDA c1 :
                          IF check(ts, c1, "ASSIGN")
                          THEN Bind(parseExpression(ts, advance(ts, c1)), LAMBDA init :
                                   IF ~init.ok THEN init
                                   ELSE Parsed(matched(ts, init.current, "SEMICOLON"),
                                               DeclarationStmt(name.node, type, init.node)))
                          ELSE Parsed(matched(ts, c1, "SEMICOLON"),
                                      DeclarationStmt(name.node, type, Null))))))

\* called with the identifier already consumed
parseAssignment(ts, current) ==
    Bind(previous(ts, current), LAMBDA name :
    Bind(consume(ts, current, "ASSIGN", "Expected '=' after variable name"), LAMBDA eq :
        IF ~eq.ok THEN eq
        ELSE Bind(parseExpression(ts, eq.current), LAMBDA value :
                 IF ~value.ok THEN value
                 ELSE Parsed(matched(ts, value.current, "SEMICOLON"),
                             AssignmentStmt(name, value.node)))))

parseIfStatement(ts, current) ==
    Bind(parseExpression(ts, current), LAMBDA condition :
        IF ~condition.ok THEN condition
        ELSE Bind(parseBlock(ts, condition.current), LAMBDA thenBranch :
                 IF ~thenBranch.ok THEN thenBranch
                 ELSE IF check(ts, thenBranch.current, "ELSE")
                 THEN Bind(parseBlock(ts, advance(ts, thenBranch.current)), LAMBDA elseBranch :
                          IF ~elseBranch.ok THEN elseBranch
                          ELSE Parsed(elseBranch.current,
                                      IfStmt(condition.node, thenBranch.node, elseBranch.node)))
                 ELSE Parsed(thenBranch.current, IfStmt(condition.node, thenBranch.node, <<>>))))

parseWhileStatement(ts, current) ==
    Bind(parseExpression(ts, current), LAMBDA condition :
        IF ~condition.ok THEN condition
        ELSE Bind(parseBlock(ts, condition.current), LAMBDA body :
                 IF ~body.ok THEN body
                 ELSE Parsed(body.current, WhileStmt(condition.node, body.node))))

parseReturnStatement(ts, current) ==
    IF ~check(ts, current, "SEMICOLON")
    THEN Bind(parseExpression(ts, current), LAMBDA value :
             IF ~value.ok THEN value
             ELSE Parsed(matched(ts, value.current, "SEMICOLON"), ReturnStmt(value.node)))
    ELSE Parsed(matched(ts, current, "SEMICOLON"), ReturnStmt(Null))

\* the token types at which the argument loop of a print statement stops
printTerminators ==
    {"SEMICOLON", "RBRACE", "FUNC", "LET", "IF", "WHILE", "RETURN", "ELSE", "END_OF_FILE"}

primaryStarts ==
    {"IDENTIFIER", "STRING", "NUMBER", "FLOAT", "TRUE", "FALSE", "LPAREN", "LBRACKET"}

\* what the argument loop does with a ParseError thrown by parsePrimary: the
\* catch clause breaks out of the loop, keeping the arguments parsed so far
\* and the position the failed rule had reached
printArgumentFailed(thrown, arguments) == Parsed(thrown.current, arguments)

\* the while (true) loop of parsePrintStatement
RECURSIVE printArgumentsLoop(_, _, _)
printArgumentsLoop(ts, current, arguments) ==
    IF isAtEnd(ts, current) \/ peek(ts, current).type \in printTerminators
    THEN Parsed(current, arguments)
    ELSE Bind(parsePrimary(ts, current), LAMBDA expr :
             IF ~expr.ok THEN printArgumentFailed(expr, arguments)
             ELSE Bind(Append(arguments, expr.node), LAMBDA args :
                  Bind(peek(ts, expr.current), LAMBDA next :
                      IF isAtEnd(ts, expr.current) \/ next.type \in printTerminators
                          THEN Parsed(expr.current, args)
                      ELSE IF next.type = "IDENTIFIER" /\ next.lexeme = PrintLexeme
                          THEN Parsed(expr.current, args)
                      ELSE IF next.type = "ASSIGN"
                          THEN Parsed(expr.current, args)
                      ELSE IF next.type \notin primaryStarts
                          THEN Parsed(expr.current, args)
                      ELSE printArgumentsLoop(ts, expr.current, args))))

parsePrintStatement(ts, current) ==
    Bind(peek(ts, current), LAMBDA printToken :
    Bind(printArgumentsLoop(ts, advance(ts, current), <<>>), LAMBDA args :
        IF ~args.ok THEN args
        ELSE Parsed(matched(ts, args.current, "SEMICOLON"),
                    ExpressionStmt(CallExpr(printToken, args.node)))))

parseExpressionStatement(ts, current) ==
    Bind(parseExpression(ts, current), LAMBDA expr :
        IF ~expr.ok THEN expr
        ELSE Parsed(matched(ts, expr.current, "SEMICOLON"), ExpressionStmt(expr.node)))

parseStatement(ts, current) ==
    IF check(ts, current, "LET") THEN parseDeclaration(ts, advance(ts, current))
    ELSE IF check(ts, current, "IF") THEN parseIfStatement(ts, advance(ts, current))
    ELSE IF check(ts, current, "WHILE") THEN parseWhileStatement(ts, advance(ts, current))
    ELSE IF check(ts, current, "RETURN") THEN parseReturnStatement(ts, advance(ts, current))
    ELSE IF check(ts, current, "IDENTIFIER") /\ peek(ts, current).lexeme = PrintLexeme
        THEN parsePrintStatement(ts, current)
    ELSE IF check(ts, current, "IDENTIFIER") /\ peekNext(ts, current).type = "ASSIGN"
        THEN parseAssignment(ts, advance(ts, current))
    ELSE IF check(ts, current, "LBRACE")
        THEN Bind(parseBlock(ts, advance(ts, current)), LAMBDA stmts :
                 IF ~stmts.ok THEN stmts ELSE Parsed(stmts.current, BlockStmt(stmts.node)))
    ELSE parseExpressionStatement(ts, current)

\* the do-while loop of parseParameters
RECURSIVE parseParametersLoop(_, _, _)
parseParametersLoop(ts, current, parameters) ==
    IF ~check(ts, current, "IDENTIFIER")
    THEN Thrown(current, "Expected parameter name", 0 - 1)
    ELSE Bind(peek(ts, current), LAMBDA name :
         Bind(advance(ts, current), LAMBDA c1 :
             IF ~check(ts, c1, "COLON")
             THEN Thrown(c1, "Expected ':' after parameter name", 0 - 1)
             ELSE IF ~checkAny(ts, advance(ts, c1), validTypeTokens)
             THEN Thrown(advance(ts, c1), "Expected parameter type", 0 - 1)
             ELSE Bind(peek(ts, advance(ts, c1)), LAMBDA typeToken :
                  Bind(advance(ts, advance(ts, c1)), LAMBDA c2 :
                  Bind(tokenToDataType(typeToken), LAMBDA type :
                  Bind(Append(parameters, [first |-> name, second |-> type]), LAMBDA params :
                      IF type = "UNKNOWN"
                      THEN Thrown(c2, "Unknown parameter type", 0 - 1)
                      ELSE IF check(ts, c2, "COMMA")
                      THEN parseParametersLoop(ts, advance(ts, c2), params)
                      ELSE Parsed(c2, params)))))))

parseParameters(ts, current) ==
    IF check(ts, current, "RPAREN") THEN Parsed(current, <<>>)
    ELSE parseParametersLoop(ts, current, <<>>)

\* called with the FUNC token already consumed
parseFunction(ts, current) ==
    Bind(consume(ts, current, "IDENTIFIER", "Expected function name"), LAMBDA name :
        IF ~name.ok THEN name
        ELSE Bind(consume(ts, name.current, "LPAREN", "Expected '(' after function name"), LAMBDA lp :
        IF ~lp.ok THEN lp
        ELSE Bind(parseParameters(ts, lp.current), LAMBDA parameters :
        IF ~parameters.ok THEN parameters
        ELSE Bind(consume(ts, parameters.current, "RPAREN", "Expected ')' after parameters"), LAMBDA rp :
        IF ~rp.ok THEN rp
        ELSE Bind(consume(ts, rp.current, "ARROW", "Expected '->' after function parameters"), LAMBDA arrow :
        IF ~arrow.ok THEN arrow
        ELSE IF ~checkAny(ts, arrow.current, validTypeTokens)
        THEN Thrown(arrow.current, "Expected return type", 0 - 1)
        ELSE Bind(tokenToDataType(peek(ts, arrow.current)), LAMBDA returnType :
             Bind(parseBlock(ts, advance(ts, arrow.current)), LAMBDA body :
        IF ~body.ok THEN body
        ELSE Parsed(body.current,
                    FunctionDecl(name.node, parameters.node, returnType, body.node)))))))))

RECURSIVE parseProgramLoop(_, _, _)
parseProgramLoop(ts, current, functions) ==
    IF ~isAtEnd(ts, current)
    THEN IF check(ts, current, "FUNC")
         THEN Bind(parseFunction(ts, advance(ts, current)), LAMBDA func :
                  IF ~func.ok THEN func
                  ELSE parseProgramLoop(ts, func.current, Append(functions, func.node)))
         ELSE Thrown(current, "Expected function declaration", 0 - 1)
    ELSE Parsed(current, [kind |-> "Program", functions |-> functions])

parseProgram(ts) == parseProgramLoop(ts, 0, <<>>)

\* Parser::parse: the program, or Null (nullptr) when a ParseError reached it
parse(ts) ==
    Bind(parseProgram(ts), LAMBDA p :
        IF p.ok THEN p.node ELSE Null)

----------------------------------------------------------------------------
(* Interpreter: runtime values *)

\* FLOAT values are not modelled: no program of the input sets holds a
\* FLOAT literal, and every other value the interpreter builds from them is
\* of one of these kinds.
Void == [kind |-> "VOID"]

FromInt(value) == [kind |-> "INT", intValue |-> value]

FromBool(value) == [kind |-> "BOOL", boolValue |-> value]

FromString(value) == [kind |-> "STRING", stringValue |-> value]

FromSequence(values) == [kind |-> "SEQUENCE", sequenceValue |-> values]

\* asFloat and asInt throw on a value of these kinds
isConvertible(value) == value.kind \in {"INT", "BOOL"}

\* asFloat() and asInt() of a convertible value
asNumber(value) ==
    IF value.kind = "INT" THEN value.intValue
    ELSE IF value.boolValue THEN 1 ELSE 0

isTruthy(value) ==
    CASE value.kind = "VOID" -> FALSE
      [] value.kind = "BOOL" -> value.boolValue
      [] value.kind = "INT" -> value.intValue # 0
      [] value.kind = "STRING" -> value.stringValue # <<>>
      [] value.kind = "SEQUENCE" -> value.sequenceValue # <<>>

asBool(value) ==
    IF value.kind = "BOOL" THEN value.boolValue
    ELSE IF value.kind = "INT" THEN asNumber(value) # 0
    ELSE isTruthy(value)

RECURSIVE toString(_)
RECURSIVE joinToString(_, _)

\* the elements of a sequence from index i on, joined with ", "
joinToString(values, i) ==
    IF i > Len(values) THEN <<>>
    ELSE (IF i > 1 THEN <<",", " ">> ELSE <<>>) \o toString(values[i]) \o joinToString(values, i + 1)

toString(value) ==
    CASE value.kind = "VOID" -> <<"v", "o", "i", "d">>
      [] value.kind = "INT" -> to_string(value.intValue)
      [] value.kind = "BOOL" ->
            IF value.boolValue THEN <<"t", "r", "u", "e">> ELSE <<"f", "a", "l", "s", "e">>
      [] value.kind = "STRING" -> value.stringValue
      [] value.kind = "SEQUENCE" -> <<"[">> \o joinToString(value.sequenceValue, 1) \o <<"]">>

----------------------------------------------------------------------------
(* Interpreter: scopes *)

\* The interpreter's state while it runs: the scope stack, the output log,
\* the exception in flight (thrown: "none", "return" for a ReturnSignal,
\* "error" for a std::runtime_error), the value of the expression just
\* evaluated or carried by the ReturnSignal, and the message of the error.
\* calls records, for every user function call that has returned, the depth
\* of the scope stack before and after it and the stack itself before and
\* after it.
NoMessage == [msg |-> "", name |-> <<>>]

Message(msg, name) == [msg |-> msg, name |-> name]

InterpreterInit ==
    [scopes |-> <<>>, outputLog |-> <<>>, thrown |-> "none", value |-> Void,
     what |-> NoMessage, calls |-> <<>>]

WithValue(st, value) == [st EXCEPT !.value = value]

Throw(st, msg, name) == [st EXCEPT !.thrown = "error", !.what = Message(msg, name)]

pushScope(st) == [st EXCEPT !.scopes = Append(@, << >>)]

popScope(st) ==
    IF st.scopes # <<>> THEN [st EXCEPT !.scopes = SubSeq(@, 1, Len(@) - 1)] ELSE st

define(st, name, value) ==
    Bind(IF st.scopes = <<>> THEN pushScope(st) ELSE st, LAMBDA s1 :
        [s1 EXCEPT !.scopes[Len(s1.scopes)] = MapPut(@, name, value)])

\* the innermost frame that holds name, 0 if none does
frameOf(scopes, name) ==
    IF \E i \in 1..Len(scopes) : name \in DOMAIN scopes[i]
    THEN CHOOSE i \in 1..Len(scopes) :
            /\ name \in DOMAIN scopes[i]
            /\ \A j \in (i + 1)..Len(scopes) : name \notin DOMAIN scopes[j]
    ELSE 0

assign(st, name, value) ==
    IF frameOf(st.scopes, name) # 0
    THEN [st EXCEPT !.scopes[frameOf(st.scopes, name)] = MapPut(@, name, value)]
    ELSE define(st, name, value)

\* Interpreter::get
getVariable(st, name) ==
    IF frameOf(st.scopes, name) # 0
    THEN WithValue(st, st.scopes[frameOf(st.scopes, name)][name])
    ELSE Throw(st, "Runtime error: Undefined variable", name)

----------------------------------------------------------------------------
(* Interpreter: evaluation *)

\* initializeFunctionTable: a later function of the same name replaces an
\* earlier one
hasFunction(prog, name) ==
    \E i \in 1..Len(prog.functions) : prog.functions[i].name.lexeme = name

findFunction(prog, name) ==
    prog.functions[CHOOSE i \in 1..Len(prog.functions) :
        /\ prog.functions[i].name.lexeme = name
        /\ \A j \in (i + 1)..Len(prog.functions) : prog.functions[j].name.lexeme # name]

\* performNumeric for + - *: computed in double, exact on the integers of
\* the model, and converted back to long long
arithmetic(op, l, r) ==
    CASE op = "PLUS" -> l + r
      [] op = "MINUS" -> l - r
      [] op = "MULTIPLY" -> l * r

\* performNumeric for /: the double quotient is truncated toward zero by the
\* conversion to long long; a zero divisor makes the quotient infinite or
\* not a number, whose conversion is undefined
divide(l, r) == IF r = 0 THEN ubCast ELSE TruncDiv(l, r)

\* TokenType::DIVIDE of evaluateBinary, both operands being convertible
evaluateDivide(st, l, r) == WithValue(st, FromInt(divide(l, r)))

\* TokenType::MODULO of evaluateBinary, both operands being convertible
evaluateModulo(st, l, r) ==
    IF r = 0 THEN Throw(st, "Runtime error: division by zero", <<>>)
    ELSE WithValue(st, FromInt(TruncMod(l, r)))

compare(op, l, r) ==
    CASE op = "LESS" -> l < r
      [] op = "LESS_EQUAL" -> l <= r
      [] op = "GREATER" -> l > r
      [] op = "GREATER_EQUAL" -> l >= r

\* equality that compares the kinds of the operands only
sameKind(left, right) == left.kind = right.kind

\* left.toString() == right.toString()
sameText(left, right) == toString(left) = toString(right)

\* the switch of evaluateBinary on the two operand values
applyBinary(st, op, left, right) ==
    CASE op = "PLUS" /\ left.kind = "SEQUENCE" /\ right.kind = "SEQUENCE" ->
            WithValue(st, FromSequence(left.sequenceValue \o right.sequenceValue))
      [] op \in {"PLUS", "MINUS", "MULTIPLY", "DIVIDE"}
            /\ ~(op = "PLUS" /\ left.kind = "SEQUENCE" /\ right.kind = "SEQUENCE") ->
            IF ~isConvertible(left) \/ ~isConvertible(right)
            THEN Throw(st, "Runtime error: value is not numeric", <<>>)
            ELSE IF op = "DIVIDE" THEN evaluateDivide(st, asNumber(left), asNumber(right))
            ELSE WithValue(st, FromInt(arithmetic(op, asNumber(left), asNumber(right))))
      [] op = "MODULO" ->
            IF ~isConvertible(left) \/ ~isConvertible(right)
            THEN Throw(st, "Runtime error: value is not an integer", <<>>)
            ELSE evaluateModulo(st, asNumber(left), asNumber(right))
      [] op = "EQUALS" -> WithValue(st, FromBool(sameText(left, right)))
      [] op = "NOT_EQUALS" -> WithValue(st, FromBool(~sameText(left, right)))
      [] op \in {"LESS", "LESS_EQUAL", "GREATER", "GREATER_EQUAL"} ->
            IF ~isConvertible(left) \/ ~isConvertible(right)
            THEN Throw(st, "Runtime error: value is not numeric", <<>>)
            ELSE WithValue(st, FromBool(compare(op, asNumber(left), asNumber(right))))
      [] op = "AND" -> WithValue(st, FromBool(asBool(left) /\ asBool(right)))
      [] op = "OR" -> WithValue(st, FromBool(asBool(left) \/ asBool(right)))
      [] OTHER -> WithValue(st, Void)

applyUnary(st, op, value) ==
    CASE op = "MINUS" ->
            IF value.kind # "INT"
            THEN Throw(st, "Runtime error: operator '-' requires numeric operands", <<>>)
            ELSE WithValue(st, FromInt(0 - value.intValue))
      [] op = "NOT" -> WithValue(st, FromBool(~asBool(value)))
      [] OTHER -> WithValue(st, Void)

evaluateLiteral(st, expr) ==
    CASE expr.value.type = "NUMBER" -> WithValue(st, FromInt(stoi(expr.value.lexeme)))
      [] expr.value.type = "TRUE" -> WithValue(st, FromBool(TRUE))
      [] expr.value.type = "FALSE" -> WithValue(st, FromBool(FALSE))
      [] expr.value.type = "STRING" -> WithValue(st, FromString(expr.value.lexeme))
      [] OTHER -> WithValue(st, Void)

\* the record of a finished user function call
CallRecord(name, before, after, how, scopesBefore, scopesAfter) ==
    [name |-> name, before |-> before, after |-> after, how |-> how,
     scopesBefore |-> scopesBefore, scopesAfter |-> scopesAfter]

RECURSIVE evaluateExpression(_, _, _)
RECURSIVE evaluateArguments(_, _, _, _, _)
RECURSIVE executeStatement(_, _, _)
RECURSIVE executeStatements(_, _, _, _)
RECURSIVE executeWhile(_, _, _)
RECURSIVE executeFunction(_, _, _, _)
RECURSIVE applyToItems(_, _, _, _, _, _)

\* evaluates arguments[i..] left to right; value is the list of their values
evaluateArguments(prog, st, arguments, i, values) ==
    IF i > Len(arguments) THEN WithValue(st, values)
    ELSE Bind(evaluateExpression(prog, st, arguments[i]), LAMBDA a :
             IF a.thrown # "none" THEN a
             ELSE evaluateArguments(prog, a, arguments, i + 1, Append(values, a.value)))

\* a binding that gives 0 to a parameter without an argument
RECURSIVE bindParametersOrZero(_, _, _, _)
bindParametersOrZero(st, parameters, args, i) ==
    IF i > Len(parameters) THEN st
    ELSE bindParametersOrZero(
            define(st, parameters[i].first.lexeme,
                   IF i <= Len(args) THEN args[i] ELSE FromInt(0)),
            parameters, args, i + 1)

\* the for loop of executeFunction that binds the parameters
RECURSIVE bindParameters(_, _, _, _)
bindParameters(st, parameters, args, i) ==
    IF i > Len(parameters) THEN st
    ELSE bindParameters(
            define(st, parameters[i].first.lexeme, IF i <= Len(args) THEN args[i] ELSE Void),
            parameters, args, i + 1)

\* what executeFunction does when a ReturnSignal reaches it
caughtReturn(st) == WithValue([popScope(st) EXCEPT !.thrown = "none"], st.value)

executeFunction(prog, st, function, args) ==
    Bind(Len(st.scopes), LAMBDA before :
    Bind(bindParameters(pushScope(st), function.parameters, args, 1), LAMBDA s1 :
    Bind(executeStatements(prog, s1, function.body, 1), LAMBDA s2 :
    Bind(IF s2.thrown = "return" THEN caughtReturn(s2)
         ELSE IF s2.thrown = "error" THEN popScope(s2)
         ELSE WithValue(popScope(s2), Void), LAMBDA s3 :
    Bind(IF s2.thrown = "none" THEN "end" ELSE s2.thrown, LAMBDA how :
        [s3 EXCEPT !.calls =
            Append(@, CallRecord(function.name.lexeme, before, Len(s3.scopes), how,
                                 st.scopes, s3.scopes))])))))

callUserFunction(prog, st, name, args) ==
    IF ~hasFunction(prog, name)
    THEN Throw(st, "Runtime error: Undefined function", name)
    ELSE executeFunction(prog, st, findFunction(prog, name), args)

\* the line handlePrint builds: the printed forms separated by one space
RECURSIVE printLine(_, _)
printLine(values, i) ==
    IF i > Len(values) THEN <<>>
    ELSE (IF i > 1 THEN <<" ">> ELSE <<>>) \o toString(values[i]) \o printLine(values, i + 1)

\* the line is appended only after every argument has been evaluated
handlePrint(prog, st, expr) ==
    Bind(evaluateArguments(prog, st, expr.arguments, 1, <<>>), LAMBDA a :
        IF a.thrown # "none" THEN a
        ELSE WithValue([a EXCEPT !.outputLog = Append(@, printLine(a.value, 1))], Void))

handleLength(prog, st, expr) ==
    IF Len(expr.arguments) # 1
    THEN Throw(st, "Runtime error: length expects 1 argument", <<>>)
    ELSE Bind(evaluateExpression(prog, st, expr.arguments[1]), LAMBDA a :
             IF a.thrown # "none" THEN a
             ELSE IF a.value.kind # "SEQUENCE"
             THEN Throw(a, "Runtime error: length expects a sequence", <<>>)
             ELSE WithValue(a, FromInt(Len(a.value.sequenceValue))))

\* the same built-in counting the elements from one
handleGetFromOne(prog, st, expr) ==
    IF Len(expr.arguments) # 2
    THEN Throw(st, "Runtime error: get expects 2 arguments", <<>>)
    ELSE Bind(evaluateArguments(prog, st, expr.arguments, 1, <<>>), LAMBDA a :
             IF a.thrown # "none" THEN a
             ELSE Bind(a.value[1], LAMBDA sequence :
                  Bind(a.value[2], LAMBDA index :
                      IF sequence.kind # "SEQUENCE"
                      THEN Throw(a, "Runtime error: get expects a sequence as the first argument",
                                 <<>>)
                      ELSE IF ~isConvertible(index)
                      THEN Throw(a, "Runtime error: value is not an integer", <<>>)
                      ELSE IF asNumber(index) < 1
                              \/ asNumber(index) > Len(sequence.sequenceValue)
                      THEN Throw(a, "Runtime error: sequence index out of range", <<>>)
                      ELSE WithValue(a, sequence.sequenceValue[asNumber(index)]))))

handleGet(prog, st, expr) ==
    IF Len(expr.arguments) # 2
    THEN Throw(st, "Runtime error: get expects 2 arguments", <<>>)
    ELSE Bind(evaluateArguments(prog, st, expr.arguments, 1, <<>>), LAMBDA a :
             IF a.thrown # "none" THEN a
             ELSE Bind(a.value[1], LAMBDA sequence :
                  Bind(a.value[2], LAMBDA index :
                      IF sequence.kind # "SEQUENCE"
                      THEN Throw(a, "Runtime error: get expects a sequence as the first argument",
                                 <<>>)
                      ELSE IF ~isConvertible(index)
                      THEN Throw(a, "Runtime error: value is not an integer", <<>>)
                      ELSE IF asNumber(index) < 0
                              \/ asNumber(index) >= Len(sequence.sequenceValue)
                      THEN Throw(a, "Runtime error: sequence index out of range", <<>>)
                      ELSE WithValue(a, sequence.sequenceValue[asNumber(index) + 1]))))

\* the loops of handleMap (keepAll) and handleFilter: the named function is
\* called on each item in turn
applyToItems(prog, st, name, items, i, acc) ==
    IF i > Len(items.values) THEN WithValue(st, FromSequence(acc))
    ELSE Bind(callUserFunction(prog, st, name, <<items.values[i]>>), LAMBDA r :
             IF r.thrown # "none" THEN r
             ELSE applyToItems(prog, r, name, items, i + 1,
                    IF items.keepAll THEN Append(acc, r.value)
                    ELSE IF asBool(r.value) THEN Append(acc, items.values[i]) ELSE acc))

\* handleMap and handleFilter differ in the loop body and in their messages
handleMapOrFilter(prog, st, expr, isMap) ==
    IF Len(expr.arguments) # 2
    THEN Throw(st, IF isMap THEN "Runtime error: map expects 2 arguments"
                   ELSE "Runtime error: filter expects 2 arguments", <<>>)
    ELSE Bind(evaluateExpression(prog, st, expr.arguments[1]), LAMBDA a :
             IF a.thrown # "none" THEN a
             ELSE IF a.value.kind # "SEQUENCE"
             THEN Throw(a, IF isMap
                           THEN "Runtime error: map expects a sequence as the first argument"
                           ELSE "Runtime error: filter expects a sequence as the first argument",
                        <<>>)
             ELSE IF expr.arguments[2].kind # "Variable"
             THEN Throw(a, "Runtime error: expected function identifier", <<>>)
             ELSE applyToItems(prog, a, expr.arguments[2].name.lexeme,
                    [values |-> a.value.sequenceValue, keepAll |-> isMap], 1, <<>>))

handleGenerate(prog, st, expr) ==
    Bind(evaluateArguments(prog, st, expr.arguments, 1, <<>>), LAMBDA a :
        IF a.thrown # "none" THEN a ELSE WithValue(a, FromSequence(<<>>)))

\* standard input is at end of file: getline fails and the result is 0
handleInput(prog, st, expr) ==
    IF Len(expr.arguments) > 1
    THEN Throw(st, "Runtime error: input expects at most 1 argument", <<>>)
    ELSE Bind(evaluateArguments(prog, st, expr.arguments, 1, <<>>), LAMBDA a :
             IF a.thrown # "none" THEN a ELSE WithValue(a, FromInt(0)))

evaluateCall(prog, st, expr) ==
    Bind(expr.callee.lexeme, LAMBDA funcName :
        CASE funcName = PrintLexeme -> handlePrint(prog, st, expr)
          [] funcName = LengthLexeme -> handleLength(prog, st, expr)
          [] funcName = GetLexeme -> handleGet(prog, st, expr)
          [] funcName = MapLexeme -> handleMapOrFilter(prog, st, expr, TRUE)
          [] funcName = FilterLexeme -> handleMapOrFilter(prog, st, expr, FALSE)
          [] funcName = GenerateLexeme -> handleGenerate(prog, st, expr)
          [] funcName = InputLexeme -> handleInput(prog, st, expr)
          [] OTHER ->
                Bind(evaluateArguments(prog, st, expr.arguments, 1, <<>>), LAMBDA a :
                    IF a.thrown # "none" THEN a
                    ELSE callUserFunction(prog, a, funcName, a.value)))

evaluateBinary(prog, st, expr) ==
    Bind(evaluateExpression(prog, st, expr.left), LAMBDA l :
        IF l.thrown # "none" THEN l
        ELSE Bind(evaluateExpression(prog, l, expr.right), LAMBDA r :
                 IF r.thrown # "none" THEN r
                 ELSE applyBinary(r, expr.op.type, l.value, r.value)))

evaluateUnary(prog, st, expr) ==
    Bind(evaluateExpression(prog, st, expr.right), LAMBDA v :
        IF v.thrown # "none" THEN v ELSE applyUnary(v, expr.op.type, v.value))

evaluateSequence(prog, st, expr) ==
    Bind(evaluateArguments(prog, st, expr.elements, 1, <<>>), LAMBDA a :
        IF a.thrown # "none" THEN a ELSE WithValue(a, FromSequence(a.value)))

evaluateExpression(prog, st, expr) ==
    CASE expr.kind = "Binary" -> evaluateBinary(prog, st, expr)
      [] expr.kind = "Unary" -> evaluateUnary(prog, st, expr)
      [] expr.kind = "Literal" -> evaluateLiteral(st, expr)
      [] expr.kind = "Variable" -> getVariable(st, expr.name.lexeme)
      [] expr.kind = "Call" -> evaluateCall(prog, st, expr)
      [] expr.kind = "Sequence" -> evaluateSequence(prog, st, expr)
      [] OTHER -> WithValue(st, Void)

----------------------------------------------------------------------------
(* Interpreter: execution *)

\* the statements of a list from index i on, until one throws
executeStatements(prog, st, statements, i) ==
    IF i > Len(statements) THEN st
    ELSE Bind(executeStatement(prog, st, statements[i]), LAMBDA s1 :
             IF s1.thrown # "none" THEN s1
             ELSE executeStatements(prog, s1, statements, i + 1))

\* a branch of an if statement or one iteration of a while body: the frame
\* is popped by the statement after the loop over the inner statements, which
\* an exception leaving that loop skips
executeBranch(prog, st, statements) ==
    Bind(executeStatements(prog, pushScope(st), statements, 1), LAMBDA s1 :
        IF s1.thrown # "none" THEN s1 ELSE popScope(s1))

\* executeBlock: catch (...) pops the frame and rethrows
executeBlock(prog, st, statements) ==
    popScope(executeStatements(prog, pushScope(st), statements, 1))

executeIf(prog, st, stmt) ==
    Bind(evaluateExpression(prog, st, stmt.condition), LAMBDA c :
        IF c.thrown # "none" THEN c
        ELSE IF asBool(c.value) THEN executeBranch(prog, c, stmt.thenBranch)
        ELSE IF stmt.elseBranch # <<>> THEN executeBranch(prog, c, stmt.elseBranch)
        ELSE c)

executeWhile(prog, st, stmt) ==
    Bind(evaluateExpression(prog, st, stmt.condition), LAMBDA c :
        IF c.thrown # "none" THEN c
        ELSE IF ~asBool(c.value) THEN c
        ELSE Bind(executeBranch(prog, c, stmt.body), LAMBDA b :
                 IF b.thrown # "none" THEN b ELSE executeWhile(prog, b, stmt)))

executeDeclaration(prog, st, stmt) ==
    Bind(IF stmt.initializer # Null
         THEN evaluateExpression(prog, st, stmt.initializer)
         ELSE WithValue(st, Void), LAMBDA v :
        IF v.thrown # "none" THEN v ELSE define(v, stmt.name.lexeme, v.value))

executeAssignment(prog, st, stmt) ==
    Bind(evaluateExpression(prog, st, stmt.value), LAMBDA v :
        IF v.thrown # "none" THEN v ELSE assign(v, stmt.name.lexeme, v.value))

\* throw ReturnSignal(value)
executeReturn(prog, st, stmt) ==
    Bind(IF stmt.value # Null
         THEN evaluateExpression(prog, st, stmt.value)
         ELSE WithValue(st, Void), LAMBDA v :
        IF v.thrown # "none" THEN v ELSE [v EXCEPT !.thrown = "return"])

executeStatement(prog, st, stmt) ==
    CASE stmt.kind = "Declaration" -> executeDeclaration(prog, st, stmt)
      [] stmt.kind = "Assignment" -> executeAssignment(prog, st, stmt)
      [] stmt.kind = "If" -> executeIf(prog, st, stmt)
      [] stmt.kind = "While" -> executeWhile(prog, st, stmt)
      [] stmt.kind = "Return" -> executeReturn(prog, st, stmt)
      [] stmt.kind = "ExpressionStmt" -> evaluateExpression(prog, st, stmt.expression)
      [] stmt.kind = "Block" -> executeBlock(prog, st, stmt.statements)
      [] OTHER -> st

ExecutionResult(success, exitCode, outputLog, errorMessage) ==
    [success |-> success, exitCode |-> exitCode, outputLog |-> outputLog,
     errorMessage |-> errorMessage]

\* a run that falls back on the first function when there is no main
runFirstFunction(prog) ==
    IF prog = Null
    THEN [result |-> ExecutionResult(FALSE, 0, <<>>, Message("No program loaded", <<>>)),
          final |-> InterpreterInit]
    ELSE IF prog.functions = <<>>
    THEN [result |-> ExecutionResult(FALSE, 0, <<>>, Message("No program loaded", <<>>)),
          final |-> InterpreterInit]
    ELSE Bind(executeFunction(prog, InterpreterInit,
                              IF hasFunction(prog, MainLexeme)
                              THEN findFunction(prog, MainLexeme)
                              ELSE prog.functions[1], <<>>),
              LAMBDA st :
             [result |->
                IF st.thrown = "error" THEN ExecutionResult(FALSE, 0, st.outputLog, st.what)
                ELSE IF st.value.kind = "VOID"
                THEN ExecutionResult(TRUE, 0, st.outputLog, NoMessage)
                ELSE IF ~isConvertible(st.value)
                THEN ExecutionResult(TRUE, 0, st.outputLog,
                        Message("Runtime error: value is not an integer", <<>>))
                ELSE ExecutionResult(TRUE, asNumber(st.value), st.outputLog, NoMessage),
              final |-> st])

\* Interpreter::run.  success is set before the exit code is converted, so
\* an exception of that conversion leaves it set.  final is the interpreter's
\* own state when run returns.  static_cast<int> preserves every exit code of
\* the model, all of which lie within the range of int.
run(prog) ==
    IF prog = Null
    THEN [result |-> ExecutionResult(FALSE, 0, <<>>, Message("No program loaded", <<>>)),
          final |-> InterpreterInit]
    ELSE IF ~hasFunction(prog, MainLexeme)
    THEN [result |-> ExecutionResult(FALSE, 0, <<>>, Message("No 'main' function found", <<>>)),
          final |-> InterpreterInit]
    ELSE Bind(executeFunction(prog, InterpreterInit, findFunction(prog, MainLexeme), <<>>),
              LAMBDA st :
             [result |->
                IF st.thrown = "error" THEN ExecutionResult(FALSE, 0, st.outputLog, st.what)
                ELSE IF st.value.kind = "VOID"
                THEN ExecutionResult(TRUE, 0, st.outputLog, NoMessage)
                ELSE IF ~isConvertible(st.value)
                THEN ExecutionResult(TRUE, 0, st.outputLog,
                        Message("Runtime error: value is not an integer", <<>>))
                ELSE ExecutionResult(TRUE, asNumber(st.value), st.outputLog, NoMessage),
              final |-> st])

----------------------------------------------------------------------------
(* Symbol table *)

Symbol(type, initialized, constant, depth) ==
    [type |-> type, isInitialized |-> initialized, isConstant |-> constant,
     scopeDepth |-> depth]

\* The SymbolTables from the global one to the current one.  enterScope and
\* exitScope follow the parent links, so the chain is a stack; tables that
\* were left stay allocated but are unreachable.
\* SymbolTableManager(): currentDepth 0, then enterScope() for the global
\* scope, whose parent is the unset current (ubParent).
\* wild records that current has come to hold that unset pointer.
SymbolTableManager == [tables |-> << << >> >>, currentDepth |-> 1, wild |-> FALSE]

enterScope(m) ==
    [m EXCEPT !.tables = Append(@, << >>), !.currentDepth = @ + 1]

\* if (current && current->getParent()): the global table is left only if
\* its parent is not null
exitScope(m) ==
    IF Len(m.tables) > 1
    THEN [m EXCEPT !.tables = SubSeq(@, 1, Len(@) - 1), !.currentDepth = @ - 1]
    ELSE IF Len(m.tables) = 1 /\ ubParent = "wild"
    THEN [m EXCEPT !.tables = << >>, !.wild = TRUE, !.currentDepth = @ - 1]
    ELSE m

\* SymbolTable::insert succeeds iff the name is not in the current table
canDeclare(m, name) == name \notin DOMAIN m.tables[Len(m.tables)]

\* the new symbol records the depth its table was created with
declareSymbol(m, name, type, initialized) ==
    IF canDeclare(m, name)
    THEN [m EXCEPT !.tables[Len(m.tables)] =
            MapPut(@, name, Symbol(type, initialized, FALSE, Len(m.tables) - 1))]
    ELSE m

\* SymbolTable::lookup: the innermost table that holds name, 0 if none
tableOf(m, name) == frameOf(m.tables, name)

lookupSymbol(m, name) ==
    IF tableOf(m, name) # 0 THEN m.tables[tableOf(m, name)][name] ELSE Null

\* a lookup that misses in every table follows the global table's parent
lookupIsWild(m, name) == tableOf(m, name) = 0 /\ ubParent = "wild"

markSymbolInitialized(m, name) ==
    IF tableOf(m, name) # 0
    THEN [m EXCEPT !.tables[tableOf(m, name)][name].isInitialized = TRUE]
    ELSE m

----------------------------------------------------------------------------
(* Semantic analyzer *)

\* A diagnostic: its fixed text, the name it quotes and its line (-1: none).
Diagnostic(msg, name, line) == [msg |-> msg, name |-> name, line |-> line]

\* SemanticAnalyzer after clear().  type is the DataType the last
\* analyzeExpression returned; crashed records a lookup that followed the
\* wild parent pointer, after which nothing the process does is defined.
AnalyzerInit ==
    [symbolManager |-> SymbolTableManager, errors |-> <<>>, warnings |-> <<>>,
     currentFunctionReturnType |-> "VOID", inFunction |-> FALSE,
     hasReturnStatement |-> FALSE, type |-> "UNKNOWN", crashed |-> FALSE]

addError(sa, msg, name, line) == [sa EXCEPT !.errors = Append(@, Diagnostic(msg, name, line))]

addWarning(sa, msg, name, line) ==
    [sa EXCEPT !.warnings = Append(@, Diagnostic(msg, name, line))]

WithType(sa, type) == [sa EXCEPT !.type = type]

\* symbolManager.lookupSymbol as the analyzer calls it
analyzerLookup(sa, name) ==
    IF lookupIsWild(sa.symbolManager, name) THEN [sa EXCEPT !.crashed = TRUE] ELSE sa

isNumericType(type) == type \in {"INT", "FLOAT"}

\* a coercion that also narrows Float to Int
canCoerceBothWays(from, to) == from = to \/ ({from, to} = {"INT", "FLOAT"})

canCoerce(from, to) == from = to \/ (from = "INT" /\ to = "FLOAT")

isTypeCompatible(left, right, op) ==
    IF left = "UNKNOWN" \/ right = "UNKNOWN" THEN TRUE
    ELSE CASE op = "ASSIGN" -> left = right \/ canCoerce(right, left)
           [] op = "PLUS" ->
                (left = "SEQUENCE" /\ right = "SEQUENCE")
                \/ (isNumericType(left) /\ isNumericType(right))
           [] op \in {"MINUS", "MULTIPLY", "DIVIDE"} ->
                isNumericType(left) /\ isNumericType(right)
           [] op = "MODULO" -> left = "INT" /\ right = "INT"
           [] op \in {"EQUALS", "NOT_EQUALS"} ->
                left = right \/ (isNumericType(left) /\ isNumericType(right))
           [] op \in {"LESS", "LESS_EQUAL", "GREATER", "GREATER_EQUAL"} ->
                isNumericType(left) /\ isNumericType(right)
           [] op \in {"AND", "OR"} -> left = "BOOL" /\ right = "BOOL"
           [] OTHER -> FALSE

isValidOperation(type, op) ==
    CASE op = "MINUS" -> isNumericType(type)
      [] op = "NOT" -> type = "BOOL"
      [] OTHER -> TRUE

\* the switch that ends analyzeBinaryExpression
binaryResultType(op, leftType, rightType) ==
    CASE op = "PLUS" /\ leftType = "SEQUENCE" /\ rightType = "SEQUENCE" -> "SEQUENCE"
      [] op \in {"PLUS", "MINUS", "MULTIPLY", "DIVIDE"}
            /\ ~(op = "PLUS" /\ leftType = "SEQUENCE" /\ rightType = "SEQUENCE") ->
            IF leftType = "FLOAT" \/ rightType = "FLOAT" THEN "FLOAT" ELSE "INT"
      [] op = "MODULO" -> "INT"
      [] op \in {"EQUALS", "NOT_EQUALS", "LESS", "LESS_EQUAL", "GREATER",
                 "GREATER_EQUAL", "AND", "OR"} -> "BOOL"
      [] OTHER -> "UNKNOWN"

analyzeLiteralExpression(sa, expr) ==
    WithType(sa, CASE expr.value.type = "NUMBER" -> "INT"
                   [] expr.value.type = "FLOAT" -> "FLOAT"
                   [] expr.value.type = "STRING" -> "SEQUENCE"
                   [] expr.value.type \in {"TRUE", "FALSE"} -> "BOOL"
                   [] OTHER -> "UNKNOWN")

analyzeVariableExpression(sa, expr) ==
    Bind(lookupSymbol(sa.symbolManager, expr.name.lexeme), LAMBDA symbol :
    Bind(analyzerLookup(sa, expr.name.lexeme), LAMBDA s1 :
        IF symbol = Null
        THEN WithType(addError(s1, "Undefined variable", expr.name.lexeme, expr.name.line),
                      "UNKNOWN")
        ELSE IF ~symbol.isInitialized
        THEN WithType(addWarning(s1, "Variable may be uninitialized", expr.name.lexeme,
                                 expr.name.line), symbol.type)
        ELSE WithType(s1, symbol.type)))

RECURSIVE analyzeExpression(_, _)
RECURSIVE analyzeExpressions(_, _, _)
RECURSIVE analyzeStatement(_, _)
RECURSIVE analyzeStatements(_, _, _)

\* analyzeExpression on each expression of a list from index i on
analyzeExpressions(sa, exprs, i) ==
    IF i > Len(exprs) THEN sa
    ELSE analyzeExpressions(analyzeExpression(sa, exprs[i]), exprs, i + 1)

analyzeBinaryExpression(sa, expr) ==
    Bind(analyzeExpression(sa, expr.left), LAMBDA l :
    Bind(analyzeExpression(l, expr.right), LAMBDA r :
        IF ~isTypeCompatible(l.type, r.type, expr.op.type)
        THEN WithType(addError(r, "Type mismatch in binary operation", expr.op.lexeme,
                               expr.op.line), "UNKNOWN")
        ELSE IF ~isValidOperation(l.type, expr.op.type)
        THEN WithType(addError(r, "Invalid operation for type", expr.op.lexeme, expr.op.line),
                      "UNKNOWN")
        ELSE WithType(r, binaryResultType(expr.op.type, l.type, r.type))))

analyzeUnaryExpression(sa, expr) ==
    Bind(analyzeExpression(sa, expr.right), LAMBDA r :
        IF ~isValidOperation(r.type, expr.op.type)
        THEN WithType(addError(r, "Invalid unary operation for type", expr.op.lexeme,
                               expr.op.line), "UNKNOWN")
        ELSE IF expr.op.type = "NOT" THEN WithType(r, "BOOL")
        ELSE r)

\* the built-in branches of analyzeCallExpression
analyzeBuiltinCall(sa, expr) ==
    Bind(expr.callee.lexeme, LAMBDA funcName :
    Bind(Len(expr.arguments), LAMBDA n :
    Bind(expr.callee.line, LAMBDA line :
        CASE funcName = PrintLexeme -> WithType(analyzeExpressions(sa, expr.arguments, 1), "VOID")
          [] funcName = LengthLexeme ->
                IF n # 1
                THEN WithType(addError(sa, "Function 'length' expects 1 argument", <<>>, line),
                              "INT")
                ELSE Bind(analyzeExpression(sa, expr.arguments[1]), LAMBDA one :
                         IF one.type \notin {"SEQUENCE", "UNKNOWN"}
                         THEN WithType(addError(one,
                                    "Function 'length' expects a sequence argument", <<>>,
                                    line), "INT")
                         ELSE WithType(one, "INT"))
          [] funcName = GetLexeme ->
                IF n # 2
                THEN WithType(addError(sa, "Array indexing requires array and index", <<>>,
                                       line), "INT")
                ELSE Bind(analyzeExpression(sa, expr.arguments[1]), LAMBDA one :
                     Bind(analyzeExpression(one, expr.arguments[2]), LAMBDA two :
                     Bind(IF one.type \notin {"SEQUENCE", "UNKNOWN"}
                          THEN addError(two, "Cannot index non-sequence type", <<>>, line)
                          ELSE two, LAMBDA indexed :
                         IF two.type \notin {"INT", "UNKNOWN"}
                         THEN WithType(addError(indexed, "Array index must be an integer",
                                                <<>>, line), "INT")
                         ELSE WithType(indexed, "INT"))))
          [] funcName \in {MapLexeme, FilterLexeme} ->
                IF n # 2
                THEN WithType(addError(sa,
                                IF funcName = MapLexeme
                                THEN "Function 'map' expects 2 arguments"
                                ELSE "Function 'filter' expects 2 arguments", <<>>, line),
                              "SEQUENCE")
                ELSE WithType(analyzeExpressions(sa, expr.arguments, 1), "SEQUENCE")
          [] funcName = GenerateLexeme ->
                WithType(analyzeExpressions(sa, expr.arguments, 1), "SEQUENCE")
          [] funcName = InputLexeme ->
                IF n > 1
                THEN WithType(addError(sa, "Function 'input' expects 0 or 1 argument", <<>>,
                                       line), "INT")
                ELSE IF n = 1
                THEN Bind(analyzeExpression(sa, expr.arguments[1]), LAMBDA one :
                         IF one.type \notin {"SEQUENCE", "UNKNOWN"}
                         THEN WithType(addError(one,
                                    "Function 'input' expects a string literal prompt", <<>>,
                                    line), "INT")
                         ELSE WithType(one, "INT"))
                ELSE WithType(sa, "INT"))))

builtinNames ==
    {PrintLexeme, LengthLexeme, GetLexeme, MapLexeme, FilterLexeme, GenerateLexeme,
     InputLexeme}

analyzeCallExpression(sa, expr) ==
    Bind(expr.callee.lexeme, LAMBDA funcName :
    Bind(lookupSymbol(sa.symbolManager, funcName), LAMBDA symbol :
    Bind(analyzerLookup(sa, funcName), LAMBDA s1 :
        IF funcName \in builtinNames THEN analyzeBuiltinCall(sa, expr)
        ELSE IF symbol = Null
        THEN WithType(addError(s1, "Undefined function", funcName, expr.callee.line), "UNKNOWN")
        ELSE WithType(analyzeExpressions(s1, expr.arguments, 1), symbol.type))))

\* the loop of analyzeSequenceExpression over the elements after the first
RECURSIVE analyzeElements(_, _, _, _)
analyzeElements(sa, elements, i, firstType) ==
    IF i > Len(elements) THEN sa
    ELSE Bind(analyzeExpression(sa, elements[i]), LAMBDA e :
             analyzeElements(
                IF ~isTypeCompatible(firstType, e.type, "ASSIGN")
                    /\ firstType # "UNKNOWN" /\ e.type # "UNKNOWN"
                THEN addWarning(e, "Inconsistent types in sequence", <<>>, elements[i].line)
                ELSE e,
                elements, i + 1, firstType))

analyzeSequenceExpression(sa, expr) ==
    IF expr.elements = <<>> THEN WithType(sa, "SEQUENCE")
    ELSE Bind(analyzeExpression(sa, expr.elements[1]), LAMBDA f :
             WithType(analyzeElements(f, expr.elements, 2, f.type), "SEQUENCE"))

analyzeExpression(sa, expr) ==
    CASE expr.kind = "Binary" -> analyzeBinaryExpression(sa, expr)
      [] expr.kind = "Unary" -> analyzeUnaryExpression(sa, expr)
      [] expr.kind = "Literal" -> analyzeLiteralExpression(sa, expr)
      [] expr.kind = "Variable" -> analyzeVariableExpression(sa, expr)
      [] expr.kind = "Call" -> analyzeCallExpression(sa, expr)
      [] expr.kind = "Sequence" -> analyzeSequenceExpression(sa, expr)
      [] OTHER -> WithType(sa, "UNKNOWN")

analyzeDeclaration(sa, decl) ==
    Bind([sa EXCEPT !.symbolManager =
             declareSymbol(@, decl.name.lexeme, decl.dataType, FALSE)], LAMBDA declared :
    Bind(analyzeExpression(declared, decl.initializer), LAMBDA i :
        IF ~canDeclare(sa.symbolManager, decl.name.lexeme)
        THEN addError(sa, "Variable already declared in this scope", decl.name.lexeme,
                      decl.name.line)
        ELSE IF decl.initializer = Null THEN declared
        ELSE IF ~isTypeCompatible(decl.dataType, i.type, "ASSIGN")
        THEN addError(i, "Type mismatch in initialization", decl.name.lexeme, decl.name.line)
        ELSE [i EXCEPT !.symbolManager = markSymbolInitialized(@, decl.name.lexeme)]))

analyzeAssignment(sa, stmt) ==
    Bind(lookupSymbol(sa.symbolManager, stmt.name.lexeme), LAMBDA symbol :
    Bind(analyzerLookup(sa, stmt.name.lexeme), LAMBDA s1 :
    Bind(analyzeExpression(s1, stmt.value), LAMBDA v :
        IF symbol = Null
        THEN addError(s1, "Undefined variable", stmt.name.lexeme, stmt.name.line)
        ELSE IF symbol.isConstant
        THEN addError(s1, "Cannot assign to constant", stmt.name.lexeme, stmt.name.line)
        ELSE IF ~isTypeCompatible(symbol.type, v.type, "ASSIGN")
        THEN addError(v, "Type mismatch in assignment", stmt.name.lexeme, stmt.name.line)
        ELSE [v EXCEPT !.symbolManager = markSymbolInitialized(@, stmt.name.lexeme)])))

analyzeStatements(sa, statements, i) ==
    IF i > Len(statements) THEN sa
    ELSE analyzeStatements(analyzeStatement(sa, statements[i]), statements, i + 1)

\* enterScope, the statements, exitScope
analyzeScoped(sa, statements) ==
    Bind([sa EXCEPT !.symbolManager = enterScope(@)], LAMBDA entered :
    Bind(analyzeStatements(entered, statements, 1), LAMBDA done :
        [done EXCEPT !.symbolManager = exitScope(@)]))

checkCondition(sa, line) ==
    IF sa.type \notin {"BOOL", "UNKNOWN"}
    THEN addError(sa, "Condition expression must be boolean", <<>>, line)
    ELSE sa

analyzeIfStatement(sa, stmt) ==
    Bind(checkCondition(analyzeExpression(sa, stmt.condition), stmt.line), LAMBDA c :
    Bind(analyzeScoped(c, stmt.thenBranch), LAMBDA t :
        IF stmt.elseBranch # <<>> THEN analyzeScoped(t, stmt.elseBranch) ELSE t))

analyzeWhileStatement(sa, stmt) ==
    analyzeScoped(checkCondition(analyzeExpression(sa, stmt.condition), stmt.line), stmt.body)

analyzeReturnStatement(sa, stmt) ==
    Bind([sa EXCEPT !.hasReturnStatement = TRUE], LAMBDA s1 :
    Bind(analyzeExpression(s1, stmt.value), LAMBDA v :
        IF ~sa.inFunction
        THEN addError(sa, "Return statement outside function", <<>>, stmt.line)
        ELSE IF stmt.value # Null
        THEN IF ~isTypeCompatible(sa.currentFunctionReturnType, v.type, "ASSIGN")
             THEN addError(v, "Return type mismatch", <<>>, stmt.line)
             ELSE v
        ELSE IF sa.currentFunctionReturnType # "VOID"
        THEN addError(s1, "Function must return a value", <<>>, stmt.line)
        ELSE s1))

analyzeStatement(sa, stmt) ==
    CASE stmt.kind = "Declaration" -> analyzeDeclaration(sa, stmt)
      [] stmt.kind = "Assignment" -> analyzeAssignment(sa, stmt)
      [] stmt.kind = "If" -> analyzeIfStatement(sa, stmt)
      [] stmt.kind = "While" -> analyzeWhileStatement(sa, stmt)
      [] stmt.kind = "Return" -> analyzeReturnStatement(sa, stmt)
      [] stmt.kind = "ExpressionStmt" -> analyzeExpression(sa, stmt.expression)
      [] stmt.kind = "Block" -> analyzeScoped(sa, stmt.statements)
      [] OTHER -> sa

\* the loop of analyzeFunction that declares the parameters
RECURSIVE declareParameters(_, _, _)
declareParameters(sa, parameters, i) ==
    IF i > Len(parameters) THEN sa
    ELSE Bind(parameters[i], LAMBDA param :
             declareParameters(
                IF canDeclare(sa.symbolManager, param.first.lexeme)
                THEN [sa EXCEPT !.symbolManager =
                        declareSymbol(@, param.first.lexeme, param.second, TRUE)]
                ELSE addError(sa, "Parameter already declared", param.first.lexeme,
                              param.first.line),
                parameters, i + 1))

analyzeFunction(sa, function) ==
    Bind([sa EXCEPT !.symbolManager = enterScope(@), !.inFunction = TRUE,
                    !.hasReturnStatement = FALSE,
                    !.currentFunctionReturnType = function.returnType], LAMBDA s1 :
    Bind(declareParameters(s1, function.parameters, 1), LAMBDA s2 :
    Bind(analyzeStatements(s2, function.body, 1), LAMBDA s3 :
    Bind(IF function.returnType # "VOID" /\ ~s3.hasReturnStatement
         THEN addWarning(s3, "Function may not return a value", function.name.lexeme,
                         function.name.line)
         ELSE s3, LAMBDA s4 :
        [s4 EXCEPT !.symbolManager = exitScope(@), !.inFunction = FALSE]))))

\* the built-in functions analyzeProgram declares in the global scope
builtinTypes ==
    <<[name |-> PrintLexeme, type |-> "VOID"], [name |-> GenerateLexeme, type |-> "SEQUENCE"],
      [name |-> MapLexeme, type |-> "SEQUENCE"], [name |-> FilterLexeme, type |-> "SEQUENCE"],
      [name |-> LengthLexeme, type |-> "INT"], [name |-> GetLexeme, type |-> "INT"],
      [name |-> InputLexeme, type |-> "INT"]>>

RECURSIVE declareBuiltins(_, _)
declareBuiltins(m, i) ==
    IF i > Len(builtinTypes) THEN m
    ELSE declareBuiltins(declareSymbol(m, builtinTypes[i].name, builtinTypes[i].type, TRUE),
                         i + 1)

\* the first loop of analyzeProgram
RECURSIVE declareFunctions(_, _, _)
declareFunctions(sa, functions, i) ==
    IF i > Len(functions) THEN sa
    ELSE Bind(functions[i], LAMBDA function :
             declareFunctions(
                IF canDeclare(sa.symbolManager, function.name.lexeme)
                THEN [sa EXCEPT !.symbolManager =
                        declareSymbol(@, function.name.lexeme, function.returnType, TRUE)]
                ELSE addError(sa, "Function already declared", function.name.lexeme,
                              function.name.line),
                functions, i + 1))

\* the second loop of analyzeProgram
RECURSIVE analyzeFunctions(_, _, _)
analyzeFunctions(sa, functions, i) ==
    IF i > Len(functions) THEN sa
    ELSE analyzeFunctions(analyzeFunction(sa, functions[i]), functions, i + 1)

\* a check that reports the missing main as an error
checkMainFunctionStrictly(sa, prog) ==
    IF \E i \in 1..Len(prog.functions) :
            /\ prog.functions[i].name.lexeme = MainLexeme
            /\ prog.functions[i].returnType = "INT"
            /\ prog.functions[i].parameters = <<>>
    THEN sa
    ELSE addError(sa, "Program should have a 'main' function", <<>>, 0 - 1)

checkMainFunction(sa, prog) ==
    IF \E i \in 1..Len(prog.functions) :
            /\ prog.functions[i].name.lexeme = MainLexeme
            /\ prog.functions[i].returnType = "INT"
            /\ prog.functions[i].parameters = <<>>
    THEN sa
    ELSE addWarning(sa, "Program should have a 'main' function", <<>>, 0 - 1)

\* an analysis that declares each function only when it comes to its body
RECURSIVE declareAndAnalyze(_, _, _)
declareAndAnalyze(sa, functions, i) ==
    IF i > Len(functions) THEN sa
    ELSE Bind(functions[i], LAMBDA function :
             declareAndAnalyze(
                analyzeFunction(
                    IF canDeclare(sa.symbolManager, function.name.lexeme)
                    THEN [sa EXCEPT !.symbolManager =
                            declareSymbol(@, function.name.lexeme, function.returnType, TRUE)]
                    ELSE addError(sa, "Function already declared", function.name.lexeme,
                                  function.name.line),
                    function),
                functions, i + 1))

analyzeProgramInOneLoop(sa, prog) ==
    Bind([sa EXCEPT !.symbolManager = declareBuiltins(@, 1)], LAMBDA s1 :
    Bind(declareAndAnalyze(s1, prog.functions, 1), LAMBDA s2 :
        checkMainFunction(s2, prog)))

analyzeProgram(sa, prog) ==
    Bind([sa EXCEPT !.symbolManager = declareBuiltins(@, 1)], LAMBDA s1 :
    Bind(declareFunctions(s1, prog.functions, 1), LAMBDA s2 :
    Bind(analyzeFunctions(s2, prog.functions, 1), LAMBDA s3 :
        checkMainFunction(s3, prog))))

\* SemanticAnalyzer::analyze: the analyzer after clear() and analyzeProgram;
\* its return value is errors.empty()
analyze(prog) == analyzeProgram(AnalyzerInit, prog)

\* a driver that does not look at what analyze() returned
analysisIgnored(sa) == TRUE

analysisSucceeded(sa) == sa.errors = <<>>

----------------------------------------------------------------------------
(* Lexer *)

Letters ==
    {"a", "b", "c", "d", "e", "f", "g", "h", "i", "j", "k", "l", "m", "n", "o", "p", "q",
     "r", "s", "t", "u", "v", "w", "x", "y", "z", "A", "B", "C", "D", "E", "F", "G", "H",
     "I", "J", "K", "L", "M", "N", "O", "P", "Q", "R", "S", "T", "U", "V", "W", "X", "Y",
     "Z"}

isalpha(c) == c \in Letters

isalnum(c) == isalpha(c) \/ IsDigit(c)

\* Lexer::keywords
keywords ==
    <<[text |-> <<"f", "u", "n", "c">>, type |-> "FUNC"],
      [text |-> <<"l", "e", "t">>, type |-> "LET"],
      [text |-> <<"i", "f">>, type |-> "IF"],
      [text |-> <<"e", "l", "s", "e">>, type |-> "ELSE"],
      [text |-> <<"w", "h", "i", "l", "e">>, type |-> "WHILE"],
      [text |-> <<"r", "e", "t", "u", "r", "n">>, type |-> "RETURN"],
      [text |-> <<"t", "r", "u", "e">>, type |-> "TRUE"],
      [text |-> <<"f", "a", "l", "s", "e">>, type |-> "FALSE"],
      [text |-> <<"a", "n", "d">>, type |-> "AND"],
      [text |-> <<"o", "r">>, type |-> "OR"],
      [text |-> <<"n", "o", "t">>, type |-> "NOT"],
      [text |-> <<"i", "n", "t">>, type |-> "INT"],
      [text |-> <<"f", "l", "o", "a", "t">>, type |-> "FLOAT_TYPE"],
      [text |-> <<"b", "o", "o", "l">>, type |-> "BOOL"],
      [text |-> <<"s", "e", "q", "u", "e", "n", "c", "e">>, type |-> "SEQUENCE"],
      [text |-> <<"p", "a", "t", "t", "e", "r", "n">>, type |-> "PATTERN"]>>

keywordType(text) ==
    IF \E i \in 1..Len(keywords) : keywords[i].text = text
    THEN keywords[CHOOSE i \in 1..Len(keywords) : keywords[i].text = text].type
    ELSE "IDENTIFIER"

\* The lexer's position: current counts the characters consumed (the next
\* character is chars[current + 1]) and line is the line counter.
LexerInit == [current |-> 0, line |-> 1]

lexAtEnd(chars, l) == l.current >= Len(chars)

lexPeek(chars, l) == IF lexAtEnd(chars, l) THEN "" ELSE chars[l.current + 1]

lexAdvance(l) == [l EXCEPT !.current = @ + 1]

RECURSIVE skipComment(_, _)
skipComment(chars, l) ==
    IF ~lexAtEnd(chars, l) /\ lexPeek(chars, l) # "\n"
    THEN skipComment(chars, lexAdvance(l))
    ELSE l

RECURSIVE skipWhitespace(_, _)
skipWhitespace(chars, l) ==
    IF lexAtEnd(chars, l) THEN l
    ELSE CASE lexPeek(chars, l) \in {" ", "\t", "\r"} -> skipWhitespace(chars, lexAdvance(l))
           [] lexPeek(chars, l) = "\n" ->
                skipWhitespace(chars, lexAdvance([l EXCEPT !.line = @ + 1]))
           [] lexPeek(chars, l) = "#" -> skipWhitespace(chars, skipComment(chars, l))
           [] OTHER -> l

\* the loop of stringLiteral
RECURSIVE stringBody(_, _)
stringBody(chars, l) ==
    IF ~lexAtEnd(chars, l) /\ lexPeek(chars, l) # "\""
    THEN stringBody(chars,
            lexAdvance(IF lexPeek(chars, l) = "\n" THEN [l EXCEPT !.line = @ + 1] ELSE l))
    ELSE l

Unterminated ==
    <<"U", "n", "t", "e", "r", "m", "i", "n", "a", "t", "e", "d", " ", "s", "t", "r", "i",
      "n", "g">>

\* start is the position of the opening quote
stringLiteral(chars, start, l) ==
    Bind(stringBody(chars, l), LAMBDA b :
    Bind(lexAdvance(b), LAMBDA e :
        IF lexAtEnd(chars, b)
        THEN [token |-> Token("ERROR", Unterminated, b.line), l |-> b]
        ELSE [token |-> Token("STRING", SubSeq(chars, start + 2, e.current - 1), e.line),
              l |-> e]))

\* the loop of number
RECURSIVE numberBody(_, _, _)
numberBody(chars, l, isFloat) ==
    IF ~lexAtEnd(chars, l) /\ (IsDigit(lexPeek(chars, l)) \/ lexPeek(chars, l) = ".")
    THEN IF lexPeek(chars, l) = "." /\ isFloat THEN [l |-> l, isFloat |-> isFloat]
         ELSE numberBody(chars, lexAdvance(l), isFloat \/ lexPeek(chars, l) = ".")
    ELSE [l |-> l, isFloat |-> isFloat]

number(chars, start, l) ==
    Bind(numberBody(chars, l, FALSE), LAMBDA b :
        [token |-> Token(IF b.isFloat THEN "FLOAT" ELSE "NUMBER",
                         SubSeq(chars, start + 1, b.l.current), b.l.line),
         l |-> b.l])

RECURSIVE identifierBody(_, _)
identifierBody(chars, l) ==
    IF ~lexAtEnd(chars, l) /\ (isalnum(lexPeek(chars, l)) \/ lexPeek(chars, l) = "_")
    THEN identifierBody(chars, lexAdvance(l))
    ELSE l

identifier(chars, start, l) ==
    Bind(identifierBody(chars, l), LAMBDA b :
    Bind(SubSeq(chars, start + 1, b.current), LAMBDA text :
        [token |-> Token(keywordType(text), text, b.line), l |-> b]))

\* the single-character tokens of nextToken's switch
punctuation ==
    <<[c |-> "(", type |-> "LPAREN"], [c |-> ")", type |-> "RPAREN"],
      [c |-> "{", type |-> "LBRACE"], [c |-> "}", type |-> "RBRACE"],
      [c |-> "[", type |-> "LBRACKET"], [c |-> "]", type |-> "RBRACKET"],
      [c |-> ",", type |-> "COMMA"], [c |-> ":", type |-> "COLON"],
      [c |-> ";", type |-> "SEMICOLON"], [c |-> "+", type |-> "PLUS"],
      [c |-> "*", type |-> "MULTIPLY"], [c |-> "/", type |-> "DIVIDE"],
      [c |-> "%", type |-> "MODULO"]>>

\* the tokens of nextToken's switch that may take a second character
paired ==
    <<[c |-> "-", next |-> ">", both |-> "ARROW", alone |-> "MINUS"],
      [c |-> "=", next |-> "=", both |-> "EQUALS", alone |-> "ASSIGN"],
      [c |-> "!", next |-> "=", both |-> "NOT_EQUALS", alone |-> "ERROR"],
      [c |-> "<", next |-> "=", both |-> "LESS_EQUAL", alone |-> "LESS"],
      [c |-> ">", next |-> "=", both |-> "GREATER_EQUAL", alone |-> "GREATER"]>>

isPunctuation(c) == \E i \in 1..Len(punctuation) : punctuation[i].c = c

punctuationType(c) ==
    punctuation[CHOOSE i \in 1..Len(punctuation) : punctuation[i].c = c].type

isPaired(c) == \E i \in 1..Len(paired) : paired[i].c = c

pairOf(c) == paired[CHOOSE i \in 1..Len(paired) : paired[i].c = c]

nextToken(chars, l) ==
    Bind(skipWhitespace(chars, l), LAMBDA s1 :
        IF lexAtEnd(chars, s1)
        THEN [token |-> Token("END_OF_FILE", <<>>, s1.line), l |-> s1]
        ELSE Bind(s1.current, LAMBDA start :
             Bind(chars[start + 1], LAMBDA c :
             Bind(lexAdvance(s1), LAMBDA a :
                 IF isalpha(c) \/ c = "_" THEN identifier(chars, start, a)
                 ELSE IF IsDigit(c) THEN number(chars, start, a)
                 ELSE IF c = "\"" THEN stringLiteral(chars, start, a)
                 ELSE IF isPunctuation(c)
                 THEN [token |-> Token(punctuationType(c), <<c>>, a.line), l |-> a]
                 ELSE IF isPaired(c) /\ lexPeek(chars, a) = pairOf(c).next
                 THEN [token |-> Token(pairOf(c).both, <<c, pairOf(c).next>>, a.line),
                       l |-> lexAdvance(a)]
                 ELSE IF isPaired(c)
                 THEN [token |-> Token(pairOf(c).alone, <<c>>, a.line), l |-> a]
                 ELSE [token |-> Token("ERROR", <<c>>, a.line), l |-> a]))))

\* the loop of tokenize: the first END_OF_FILE or ERROR token is the last
RECURSIVE tokenizeFrom(_, _, _)
tokenizeFrom(chars, l, found) ==
    Bind(nextToken(chars, l), LAMBDA n :
        IF n.token.type \in {"END_OF_FILE", "ERROR"} THEN Append(found, n.token)
        ELSE tokenizeFrom(chars, n.l, Append(found, n.token)))

tokenize(chars) == tokenizeFrom(chars, LexerInit, <<>>)

----------------------------------------------------------------------------
(* Source programs *)

\* Each source file is the sequence of its characters.

\* Scenario A:
\*    func main() -> int { let x: int = 2 + 3 * 4; print x; return x; }
ScenarioA ==
    <<"f", "u", "n", "c", " ", "m", "a", "i", "n", "(", ")", " ", "-", ">", " ", "i",
      "n", "t", " ", "{", " ", "l", "e", "t", " ", "x", ":", " ", "i", "n", "t", " ",
      "=", " ", "2", " ", "+", " ", "3", " ", "*", " ", "4", ";", " ", "p", "r", "i",
      "n", "t", " ", "x", ";", " ", "r", "e", "t", "u", "r", "n", " ", "x", ";", " ",
      "}">>

\* Scenario B:
\*    func main() -> int { let s: sequence = [1,2,3]; print length(s); return 0; }
ScenarioB ==
    <<"f", "u", "n", "c", " ", "m", "a", "i", "n", "(", ")", " ", "-", ">", " ", "i",
      "n", "t", " ", "{", " ", "l", "e", "t", " ", "s", ":", " ", "s", "e", "q", "u",
      "e", "n", "c", "e", " ", "=", " ", "[", "1", ",", "2", ",", "3", "]", ";", " ",
      "p", "r", "i", "n", "t", " ", "l", "e", "n", "g", "t", "h", "(", "s", ")", ";",
      " ", "r", "e", "t", "u", "r", "n", " ", "0", ";", " ", "}">>

\* Scenario D:
\*    func main() -> int { let s: sequence = [1,2]; print get(s, 5); return 0; }
ScenarioD ==
    <<"f", "u", "n", "c", " ", "m", "a", "i", "n", "(", ")", " ", "-", ">", " ", "i",
      "n", "t", " ", "{", " ", "l", "e", "t", " ", "s", ":", " ", "s", "e", "q", "u",
      "e", "n", "c", "e", " ", "=", " ", "[", "1", ",", "2", "]", ";", " ", "p", "r",
      "i", "n", "t", " ", "g", "e", "t", "(", "s", ",", " ", "5", ")", ";", " ", "r",
      "e", "t", "u", "r", "n", " ", "0", ";", " ", "}">>

\* a sum that reads a variable holding a constant:
\*    func main() -> int { let x: int = 2; let y: int = x + 3; print y; return 0; }
SumOfVariable ==
    <<"f", "u", "n", "c", " ", "m", "a", "i", "n", "(", ")", " ", "-", ">", " ", "i",
      "n", "t", " ", "{", " ", "l", "e", "t", " ", "x", ":", " ", "i", "n", "t", " ",
      "=", " ", "2", ";", " ", "l", "e", "t", " ", "y", ":", " ", "i", "n", "t", " ",
      "=", " ", "x", " ", "+", " ", "3", ";", " ", "p", "r", "i", "n", "t", " ", "y",
      ";", " ", "r", "e", "t", "u", "r", "n", " ", "0", ";", " ", "}">>

\* Scenario C as the specification writes it:
\*    func main() -> int { print 1==1; return 0; }
ScenarioC ==
    <<"f", "u", "n", "c", " ", "m", "a", "i", "n", "(", ")", " ", "-", ">", " ", "i",
      "n", "t", " ", "{", " ", "p", "r", "i", "n", "t", " ", "1", "=", "=", "1", ";",
      " ", "r", "e", "t", "u", "r", "n", " ", "0", ";", " ", "}">>

\* Scenario C with two different literals:
\*    func main() -> int { print 1==2; return 0; }
ScenarioCDiffer ==
    <<"f", "u", "n", "c", " ", "m", "a", "i", "n", "(", ")", " ", "-", ">", " ", "i",
      "n", "t", " ", "{", " ", "p", "r", "i", "n", "t", " ", "1", "=", "=", "2", ";",
      " ", "r", "e", "t", "u", "r", "n", " ", "0", ";", " ", "}">>

\* Scenario C with the comparison in parentheses:
\*    func main() -> int { print (1==1); return 0; }
ScenarioCParen ==
    <<"f", "u", "n", "c", " ", "m", "a", "i", "n", "(", ")", " ", "-", ">", " ", "i",
      "n", "t", " ", "{", " ", "p", "r", "i", "n", "t", " ", "(", "1", "=", "=", "1",
      ")", ";", " ", "r", "e", "t", "u", "r", "n", " ", "0", ";", " ", "}">>

\* the same with two different literals:
\*    func main() -> int { print (1==2); return 0; }
ScenarioCParenDiffer ==
    <<"f", "u", "n", "c", " ", "m", "a", "i", "n", "(", ")", " ", "-", ">", " ", "i",
      "n", "t", " ", "{", " ", "p", "r", "i", "n", "t", " ", "(", "1", "=", "=", "2",
      ")", ";", " ", "r", "e", "t", "u", "r", "n", " ", "0", ";", " ", "}">>

\* literals of equal value and different printed form:
\*    func main() -> int { print (01==1); return 0; }
ScenarioCPadded ==
    <<"f", "u", "n", "c", " ", "m", "a", "i", "n", "(", ")", " ", "-", ">", " ", "i",
      "n", "t", " ", "{", " ", "p", "r", "i", "n", "t", " ", "(", "0", "1", "=", "=",
      "1", ")", ";", " ", "r", "e", "t", "u", "r", "n", " ", "0", ";", " ", "}">>

\* Scenario F:
\*    func main() -> int { let a: int = 5; a = a + 0; print a; return 0; }
ScenarioF ==
    <<"f", "u", "n", "c", " ", "m", "a", "i", "n", "(", ")", " ", "-", ">", " ", "i",
      "n", "t", " ", "{", " ", "l", "e", "t", " ", "a", ":", " ", "i", "n", "t", " ",
      "=", " ", "5", ";", " ", "a", " ", "=", " ", "a", " ", "+", " ", "0", ";", " ",
      "p", "r", "i", "n", "t", " ", "a", ";", " ", "r", "e", "t", "u", "r", "n", " ",
      "0", ";", " ", "}">>

\* Scenario F on a variable named like a temporary:
\*    func main() -> int { let t0: int = 5; t0 = t0 + 0; print t0; return 0; }
ScenarioFTemp ==
    <<"f", "u", "n", "c", " ", "m", "a", "i", "n", "(", ")", " ", "-", ">", " ", "i",
      "n", "t", " ", "{", " ", "l", "e", "t", " ", "t", "0", ":", " ", "i", "n", "t",
      " ", "=", " ", "5", ";", " ", "t", "0", " ", "=", " ", "t", "0", " ", "+", " ",
      "0", ";", " ", "p", "r", "i", "n", "t", " ", "t", "0", ";", " ", "r", "e", "t",
      "u", "r", "n", " ", "0", ";", " ", "}">>

\* a user variable whose name begins with t and is never read:
\*    func main() -> int { let total: int = 5; return 0; }
UnreadTotal ==
    <<"f", "u", "n", "c", " ", "m", "a", "i", "n", "(", ")", " ", "-", ">", " ", "i",
      "n", "t", " ", "{", " ", "l", "e", "t", " ", "t", "o", "t", "a", "l", ":", " ",
      "i", "n", "t", " ", "=", " ", "5", ";", " ", "r", "e", "t", "u", "r", "n", " ",
      "0", ";", " ", "}">>

\* a user variable that is never read:
\*    func main() -> int { let count: int = 5; return 0; }
UnreadCount ==
    <<"f", "u", "n", "c", " ", "m", "a", "i", "n", "(", ")", " ", "-", ">", " ", "i",
      "n", "t", " ", "{", " ", "l", "e", "t", " ", "c", "o", "u", "n", "t", ":", " ",
      "i", "n", "t", " ", "=", " ", "5", ";", " ", "r", "e", "t", "u", "r", "n", " ",
      "0", ";", " ", "}">>

\* a print argument with an unclosed parenthesis:
\*    func main() -> int { print (1; return 0; }
PrintUnclosedParen ==
    <<"f", "u", "n", "c", " ", "m", "a", "i", "n", "(", ")", " ", "-", ">", " ", "i",
      "n", "t", " ", "{", " ", "p", "r", "i", "n", "t", " ", "(", "1", ";", " ", "r",
      "e", "t", "u", "r", "n", " ", "0", ";", " ", "}">>

\* a print argument with an unclosed bracket:
\*    func main() -> int { print [1; return 0; }
PrintUnclosedBracket ==
    <<"f", "u", "n", "c", " ", "m", "a", "i", "n", "(", ")", " ", "-", ">", " ", "i",
      "n", "t", " ", "{", " ", "p", "r", "i", "n", "t", " ", "[", "1", ";", " ", "r",
      "e", "t", "u", "r", "n", " ", "0", ";", " ", "}">>

\* a declaration without its initializer expression:
\*    func main() -> int { let a: int = ; return 0; }
MissingInitializer ==
    <<"f", "u", "n", "c", " ", "m", "a", "i", "n", "(", ")", " ", "-", ">", " ", "i",
      "n", "t", " ", "{", " ", "l", "e", "t", " ", "a", ":", " ", "i", "n", "t", " ",
      "=", " ", ";", " ", "r", "e", "t", "u", "r", "n", " ", "0", ";", " ", "}">>

\* a function body that is never closed:
\*    func main() -> int { return 0;
MissingBrace ==
    <<"f", "u", "n", "c", " ", "m", "a", "i", "n", "(", ")", " ", "-", ">", " ", "i",
      "n", "t", " ", "{", " ", "r", "e", "t", "u", "r", "n", " ", "0", ";">>

\* a character the lexer rejects:
\*    func main() -> int { return 0 @ }
BadCharacter ==
    <<"f", "u", "n", "c", " ", "m", "a", "i", "n", "(", ")", " ", "-", ">", " ", "i",
      "n", "t", " ", "{", " ", "r", "e", "t", "u", "r", "n", " ", "0", " ", "@", " ",
      "}">>

\* an initializer of the wrong type:
\*    func main() -> int { let a: int = true; return 0; }
TypeMismatch ==
    <<"f", "u", "n", "c", " ", "m", "a", "i", "n", "(", ")", " ", "-", ">", " ", "i",
      "n", "t", " ", "{", " ", "l", "e", "t", " ", "a", ":", " ", "i", "n", "t", " ",
      "=", " ", "t", "r", "u", "e", ";", " ", "r", "e", "t", "u", "r", "n", " ", "0",
      ";", " ", "}">>

\* an assignment to an undeclared variable:
\*    func main() -> int { x = 1; return 0; }
UndefinedVariable ==
    <<"f", "u", "n", "c", " ", "m", "a", "i", "n", "(", ")", " ", "-", ">", " ", "i",
      "n", "t", " ", "{", " ", "x", " ", "=", " ", "1", ";", " ", "r", "e", "t", "u",
      "r", "n", " ", "0", ";", " ", "}">>

\* a modulo by zero after a printed line:
\*    func main() -> int { print 1; let a: int = 7 % 0; print a; return 0; }
ModuloByZero ==
    <<"f", "u", "n", "c", " ", "m", "a", "i", "n", "(", ")", " ", "-", ">", " ", "i",
      "n", "t", " ", "{", " ", "p", "r", "i", "n", "t", " ", "1", ";", " ", "l", "e",
      "t", " ", "a", ":", " ", "i", "n", "t", " ", "=", " ", "7", " ", "%", " ", "0",
      ";", " ", "p", "r", "i", "n", "t", " ", "a", ";", " ", "r", "e", "t", "u", "r",
      "n", " ", "0", ";", " ", "}">>

\* a division by zero after a printed line:
\*    func main() -> int { print 1; let a: int = 7 / 0; print a; return 0; }
DivideByZero ==
    <<"f", "u", "n", "c", " ", "m", "a", "i", "n", "(", ")", " ", "-", ">", " ", "i",
      "n", "t", " ", "{", " ", "p", "r", "i", "n", "t", " ", "1", ";", " ", "l", "e",
      "t", " ", "a", ":", " ", "i", "n", "t", " ", "=", " ", "7", " ", "/", " ", "0",
      ";", " ", "p", "r", "i", "n", "t", " ", "a", ";", " ", "r", "e", "t", "u", "r",
      "n", " ", "0", ";", " ", "}">>

\* a fault in the second argument of a print:
\*    func main() -> int { print 1; print 2 (3 % 0); print 4; return 0; }
FaultInPrint ==
    <<"f", "u", "n", "c", " ", "m", "a", "i", "n", "(", ")", " ", "-", ">", " ", "i",
      "n", "t", " ", "{", " ", "p", "r", "i", "n", "t", " ", "1", ";", " ", "p", "r",
      "i", "n", "t", " ", "2", " ", "(", "3", " ", "%", " ", "0", ")", ";", " ", "p",
      "r", "i", "n", "t", " ", "4", ";", " ", "r", "e", "t", "u", "r", "n", " ", "0",
      ";", " ", "}">>

\* a sequence index out of range:
\*    func main() -> int { print 1 2; print get([1, 2], 5); return 0; }
IndexOutOfRange ==
    <<"f", "u", "n", "c", " ", "m", "a", "i", "n", "(", ")", " ", "-", ">", " ", "i",
      "n", "t", " ", "{", " ", "p", "r", "i", "n", "t", " ", "1", " ", "2", ";", " ",
      "p", "r", "i", "n", "t", " ", "g", "e", "t", "(", "[", "1", ",", " ", "2", "]",
      ",", " ", "5", ")", ";", " ", "r", "e", "t", "u", "r", "n", " ", "0", ";", " ",
      "}">>

\* a Return nested in an if-branch:
\*    func f(x: int) -> int { if (x > 0) { return 1; } return 0; } func main() -> int
\*        { let a: int = f(1); print a; return 0; }
ReturnInIf ==
    <<"f", "u", "n", "c", " ", "f", "(", "x", ":", " ", "i", "n", "t", ")", " ", "-",
      ">", " ", "i", "n", "t", " ", "{", " ", "i", "f", " ", "(", "x", " ", ">", " ",
      "0", ")", " ", "{", " ", "r", "e", "t", "u", "r", "n", " ", "1", ";", " ", "}",
      " ", "r", "e", "t", "u", "r", "n", " ", "0", ";", " ", "}", " ", "f", "u", "n",
      "c", " ", "m", "a", "i", "n", "(", ")", " ", "-", ">", " ", "i", "n", "t", " ",
      "{", " ", "l", "e", "t", " ", "a", ":", " ", "i", "n", "t", " ", "=", " ", "f",
      "(", "1", ")", ";", " ", "p", "r", "i", "n", "t", " ", "a", ";", " ", "r", "e",
      "t", "u", "r", "n", " ", "0", ";", " ", "}">>

\* a Return nested in a while-iteration:
\*    func f(x: int) -> int { while (x > 0) { return x; } return 0; } func main() ->
\*        int { let a: int = f(2); print a; return 0; }
ReturnInWhile ==
    <<"f", "u", "n", "c", " ", "f", "(", "x", ":", " ", "i", "n", "t", ")", " ", "-",
      ">", " ", "i", "n", "t", " ", "{", " ", "w", "h", "i", "l", "e", " ", "(", "x",
      " ", ">", " ", "0", ")", " ", "{", " ", "r", "e", "t", "u", "r", "n", " ", "x",
      ";", " ", "}", " ", "r", "e", "t", "u", "r", "n", " ", "0", ";", " ", "}", " ",
      "f", "u", "n", "c", " ", "m", "a", "i", "n", "(", ")", " ", "-", ">", " ", "i",
      "n", "t", " ", "{", " ", "l", "e", "t", " ", "a", ":", " ", "i", "n", "t", " ",
      "=", " ", "f", "(", "2", ")", ";", " ", "p", "r", "i", "n", "t", " ", "a", ";",
      " ", "r", "e", "t", "u", "r", "n", " ", "0", ";", " ", "}">>

\* a Return nested in a block (a block statement opens with two braces):
\*    func f(x: int) -> int { {{ return x; } } func main() -> int { let a: int =
\*        f(3); print a; return 0; }
ReturnInBlock ==
    <<"f", "u", "n", "c", " ", "f", "(", "x", ":", " ", "i", "n", "t", ")", " ", "-",
      ">", " ", "i", "n", "t", " ", "{", " ", "{", "{", " ", "r", "e", "t", "u", "r",
      "n", " ", "x", ";", " ", "}", " ", "}", " ", "f", "u", "n", "c", " ", "m", "a",
      "i", "n", "(", ")", " ", "-", ">", " ", "i", "n", "t", " ", "{", " ", "l", "e",
      "t", " ", "a", ":", " ", "i", "n", "t", " ", "=", " ", "f", "(", "3", ")", ";",
      " ", "p", "r", "i", "n", "t", " ", "a", ";", " ", "r", "e", "t", "u", "r", "n",
      " ", "0", ";", " ", "}">>

\* a function whose body falls off the end:
\*    func f(x: int) -> int { let b: int = x; } func main() -> int { f(1); print 7;
\*        return 0; }
FallOffEnd ==
    <<"f", "u", "n", "c", " ", "f", "(", "x", ":", " ", "i", "n", "t", ")", " ", "-",
      ">", " ", "i", "n", "t", " ", "{", " ", "l", "e", "t", " ", "b", ":", " ", "i",
      "n", "t", " ", "=", " ", "x", ";", " ", "}", " ", "f", "u", "n", "c", " ", "m",
      "a", "i", "n", "(", ")", " ", "-", ">", " ", "i", "n", "t", " ", "{", " ", "f",
      "(", "1", ")", ";", " ", "p", "r", "i", "n", "t", " ", "7", ";", " ", "r", "e",
      "t", "u", "r", "n", " ", "0", ";", " ", "}">>

\* a Return at the top level of a function body:
\*    func f(x: int) -> int { return x + 1; } func main() -> int { print f(1); return
\*        0; }
ReturnAtTop ==
    <<"f", "u", "n", "c", " ", "f", "(", "x", ":", " ", "i", "n", "t", ")", " ", "-",
      ">", " ", "i", "n", "t", " ", "{", " ", "r", "e", "t", "u", "r", "n", " ", "x",
      " ", "+", " ", "1", ";", " ", "}", " ", "f", "u", "n", "c", " ", "m", "a", "i",
      "n", "(", ")", " ", "-", ">", " ", "i", "n", "t", " ", "{", " ", "p", "r", "i",
      "n", "t", " ", "f", "(", "1", ")", ";", " ", "r", "e", "t", "u", "r", "n", " ",
      "0", ";", " ", "}">>

\* a fault inside a called function, in an if-branch:
\*    func f(x: int) -> int { if (x > 0) { return x % 0; } return 0; } func main() ->
\*        int { print 1; print f(1); return 0; }
FaultInCall ==
    <<"f", "u", "n", "c", " ", "f", "(", "x", ":", " ", "i", "n", "t", ")", " ", "-",
      ">", " ", "i", "n", "t", " ", "{", " ", "i", "f", " ", "(", "x", " ", ">", " ",
      "0", ")", " ", "{", " ", "r", "e", "t", "u", "r", "n", " ", "x", " ", "%", " ",
      "0", ";", " ", "}", " ", "r", "e", "t", "u", "r", "n", " ", "0", ";", " ", "}",
      " ", "f", "u", "n", "c", " ", "m", "a", "i", "n", "(", ")", " ", "-", ">", " ",
      "i", "n", "t", " ", "{", " ", "p", "r", "i", "n", "t", " ", "1", ";", " ", "p",
      "r", "i", "n", "t", " ", "f", "(", "1", ")", ";", " ", "r", "e", "t", "u", "r",
      "n", " ", "0", ";", " ", "}">>

\* a counting loop:
\*    func main() -> int { let i: int = 0; while (i < 2) { print i; i = i + 1; }
\*        return i; }
Loop ==
    <<"f", "u", "n", "c", " ", "m", "a", "i", "n", "(", ")", " ", "-", ">", " ", "i",
      "n", "t", " ", "{", " ", "l", "e", "t", " ", "i", ":", " ", "i", "n", "t", " ",
      "=", " ", "0", ";", " ", "w", "h", "i", "l", "e", " ", "(", "i", " ", "<", " ",
      "2", ")", " ", "{", " ", "p", "r", "i", "n", "t", " ", "i", ";", " ", "i", " ",
      "=", " ", "i", " ", "+", " ", "1", ";", " ", "}", " ", "r", "e", "t", "u", "r",
      "n", " ", "i", ";", " ", "}">>

\* a main that returns a sequence:
\*    func main() -> sequence { print 1; return [1]; }
ReturnSequence ==
    <<"f", "u", "n", "c", " ", "m", "a", "i", "n", "(", ")", " ", "-", ">", " ", "s",
      "e", "q", "u", "e", "n", "c", "e", " ", "{", " ", "p", "r", "i", "n", "t", " ",
      "1", ";", " ", "r", "e", "t", "u", "r", "n", " ", "[", "1", "]", ";", " ", "}">>

\* subtractions and divisions that group to the left:
\*    func main() -> int { let x: int = 20 - 8 / 4 / 2 - 3; print x; return x; }
LeftAssociative ==
    <<"f", "u", "n", "c", " ", "m", "a", "i", "n", "(", ")", " ", "-", ">", " ", "i",
      "n", "t", " ", "{", " ", "l", "e", "t", " ", "x", ":", " ", "i", "n", "t", " ",
      "=", " ", "2", "0", " ", "-", " ", "8", " ", "/", " ", "4", " ", "/", " ", "2",
      " ", "-", " ", "3", ";", " ", "p", "r", "i", "n", "t", " ", "x", ";", " ", "r",
      "e", "t", "u", "r", "n", " ", "x", ";", " ", "}">>

\* a remainder and a product under a subtraction:
\*    func main() -> int { let x: int = 7 - 9 % 4 * 2; print x; return x; }
ModuloBinds ==
    <<"f", "u", "n", "c", " ", "m", "a", "i", "n", "(", ")", " ", "-", ">", " ", "i",
      "n", "t", " ", "{", " ", "l", "e", "t", " ", "x", ":", " ", "i", "n", "t", " ",
      "=", " ", "7", " ", "-", " ", "9", " ", "%", " ", "4", " ", "*", " ", "2", ";",
      " ", "p", "r", "i", "n", "t", " ", "x", ";", " ", "r", "e", "t", "u", "r", "n",
      " ", "x", ";", " ", "}">>

\* get at the first and at the last index:
\*    func main() -> int { let s: sequence = [7,8]; print get(s, 0); print get(s, 1);
\*        return 0; }
GetInRange ==
    <<"f", "u", "n", "c", " ", "m", "a", "i", "n", "(", ")", " ", "-", ">", " ", "i",
      "n", "t", " ", "{", " ", "l", "e", "t", " ", "s", ":", " ", "s", "e", "q", "u",
      "e", "n", "c", "e", " ", "=", " ", "[", "7", ",", "8", "]", ";", " ", "p", "r",
      "i", "n", "t", " ", "g", "e", "t", "(", "s", ",", " ", "0", ")", ";", " ", "p",
      "r", "i", "n", "t", " ", "g", "e", "t", "(", "s", ",", " ", "1", ")", ";", " ",
      "r", "e", "t", "u", "r", "n", " ", "0", ";", " ", "}">>

\* get at the index that equals the length:
\*    func main() -> int { let s: sequence = [7,8]; print 3; print get(s, 2); return
\*        0; }
GetAtLength ==
    <<"f", "u", "n", "c", " ", "m", "a", "i", "n", "(", ")", " ", "-", ">", " ", "i",
      "n", "t", " ", "{", " ", "l", "e", "t", " ", "s", ":", " ", "s", "e", "q", "u",
      "e", "n", "c", "e", " ", "=", " ", "[", "7", ",", "8", "]", ";", " ", "p", "r",
      "i", "n", "t", " ", "3", ";", " ", "p", "r", "i", "n", "t", " ", "g", "e", "t",
      "(", "s", ",", " ", "2", ")", ";", " ", "r", "e", "t", "u", "r", "n", " ", "0",
      ";", " ", "}">>

\* get at a negative index:
\*    func main() -> int { let s: sequence = [7,8]; print 3; print get(s, -1); return
\*        0; }
GetNegative ==
    <<"f", "u", "n", "c", " ", "m", "a", "i", "n", "(", ")", " ", "-", ">", " ", "i",
      "n", "t", " ", "{", " ", "l", "e", "t", " ", "s", ":", " ", "s", "e", "q", "u",
      "e", "n", "c", "e", " ", "=", " ", "[", "7", ",", "8", "]", ";", " ", "p", "r",
      "i", "n", "t", " ", "3", ";", " ", "p", "r", "i", "n", "t", " ", "g", "e", "t",
      "(", "s", ",", " ", "-", "1", ")", ";", " ", "r", "e", "t", "u", "r", "n", " ",
      "0", ";", " ", "}">>

\* a call of a function that is defined further down:
\*    func main() -> int { print f(2); return 0; } func f(x: int) -> int { return x;
\*        }
ForwardCall ==
    <<"f", "u", "n", "c", " ", "m", "a", "i", "n", "(", ")", " ", "-", ">", " ", "i",
      "n", "t", " ", "{", " ", "p", "r", "i", "n", "t", " ", "f", "(", "2", ")", ";",
      " ", "r", "e", "t", "u", "r", "n", " ", "0", ";", " ", "}", " ", "f", "u", "n",
      "c", " ", "f", "(", "x", ":", " ", "i", "n", "t", ")", " ", "-", ">", " ", "i",
      "n", "t", " ", "{", " ", "r", "e", "t", "u", "r", "n", " ", "x", ";", " ", "}">>

\* two functions that call each other:
\*    func a(n: int) -> int { if (n > 0) { return b(n); } return 0; } func b(n: int)
\*        -> int { return a(0); } func main() -> int { print a(1); return 0; }
MutualCalls ==
    <<"f", "u", "n", "c", " ", "a", "(", "n", ":", " ", "i", "n", "t", ")", " ", "-",
      ">", " ", "i", "n", "t", " ", "{", " ", "i", "f", " ", "(", "n", " ", ">", " ",
      "0", ")", " ", "{", " ", "r", "e", "t", "u", "r", "n", " ", "b", "(", "n", ")",
      ";", " ", "}", " ", "r", "e", "t", "u", "r", "n", " ", "0", ";", " ", "}", " ",
      "f", "u", "n", "c", " ", "b", "(", "n", ":", " ", "i", "n", "t", ")", " ", "-",
      ">", " ", "i", "n", "t", " ", "{", " ", "r", "e", "t", "u", "r", "n", " ", "a",
      "(", "0", ")", ";", " ", "}", " ", "f", "u", "n", "c", " ", "m", "a", "i", "n",
      "(", ")", " ", "-", ">", " ", "i", "n", "t", " ", "{", " ", "p", "r", "i", "n",
      "t", " ", "a", "(", "1", ")", ";", " ", "r", "e", "t", "u", "r", "n", " ", "0",
      ";", " ", "}">>

\* a call of a function that is defined nowhere:
\*    func main() -> int { print g(2); return 0; }
UndefinedFunction ==
    <<"f", "u", "n", "c", " ", "m", "a", "i", "n", "(", ")", " ", "-", ">", " ", "i",
      "n", "t", " ", "{", " ", "p", "r", "i", "n", "t", " ", "g", "(", "2", ")", ";",
      " ", "r", "e", "t", "u", "r", "n", " ", "0", ";", " ", "}">>

\* arguments that print as they are evaluated:
\*    func p(x: int) -> int { print x; return x; } func f(a: int, b: int) -> int {
\*        return a - b; } func main() -> int { print f(p(5), p(3)); return 0; }
ArgumentOrder ==
    <<"f", "u", "n", "c", " ", "p", "(", "x", ":", " ", "i", "n", "t", ")", " ", "-",
      ">", " ", "i", "n", "t", " ", "{", " ", "p", "r", "i", "n", "t", " ", "x", ";",
      " ", "r", "e", "t", "u", "r", "n", " ", "x", ";", " ", "}", " ", "f", "u", "n",
      "c", " ", "f", "(", "a", ":", " ", "i", "n", "t", ",", " ", "b", ":", " ", "i",
      "n", "t", ")", " ", "-", ">", " ", "i", "n", "t", " ", "{", " ", "r", "e", "t",
      "u", "r", "n", " ", "a", " ", "-", " ", "b", ";", " ", "}", " ", "f", "u", "n",
      "c", " ", "m", "a", "i", "n", "(", ")", " ", "-", ">", " ", "i", "n", "t", " ",
      "{", " ", "p", "r", "i", "n", "t", " ", "f", "(", "p", "(", "5", ")", ",", " ",
      "p", "(", "3", ")", ")", ";", " ", "r", "e", "t", "u", "r", "n", " ", "0", ";",
      " ", "}">>

\* a call with fewer arguments than parameters:
\*    func f(a: int, b: int) -> int { print a; print b; return a; } func main() ->
\*        int { print f(5); return 0; }
MissingArgument ==
    <<"f", "u", "n", "c", " ", "f", "(", "a", ":", " ", "i", "n", "t", ",", " ", "b",
      ":", " ", "i", "n", "t", ")", " ", "-", ">", " ", "i", "n", "t", " ", "{", " ",
      "p", "r", "i", "n", "t", " ", "a", ";", " ", "p", "r", "i", "n", "t", " ", "b",
      ";", " ", "r", "e", "t", "u", "r", "n", " ", "a", ";", " ", "}", " ", "f", "u",
      "n", "c", " ", "m", "a", "i", "n", "(", ")", " ", "-", ">", " ", "i", "n", "t",
      " ", "{", " ", "p", "r", "i", "n", "t", " ", "f", "(", "5", ")", ";", " ", "r",
      "e", "t", "u", "r", "n", " ", "0", ";", " ", "}">>

\* a call with more arguments than parameters:
\*    func f(a: int) -> int { return a; } func main() -> int { let a: int = 7; print
\*        f(5, 3); print a; return 0; }
SurplusArgument ==
    <<"f", "u", "n", "c", " ", "f", "(", "a", ":", " ", "i", "n", "t", ")", " ", "-",
      ">", " ", "i", "n", "t", " ", "{", " ", "r", "e", "t", "u", "r", "n", " ", "a",
      ";", " ", "}", " ", "f", "u", "n", "c", " ", "m", "a", "i", "n", "(", ")", " ",
      "-", ">", " ", "i", "n", "t", " ", "{", " ", "l", "e", "t", " ", "a", ":", " ",
      "i", "n", "t", " ", "=", " ", "7", ";", " ", "p", "r", "i", "n", "t", " ", "f",
      "(", "5", ",", " ", "3", ")", ";", " ", "p", "r", "i", "n", "t", " ", "a", ";",
      " ", "r", "e", "t", "u", "r", "n", " ", "0", ";", " ", "}">>

\* the value of a call whose body falls off the end:
\*    func g() -> int { let b: int = 1; } func main() -> int { print g(); return 0; }
PrintFallOffEnd ==
    <<"f", "u", "n", "c", " ", "g", "(", ")", " ", "-", ">", " ", "i", "n", "t", " ",
      "{", " ", "l", "e", "t", " ", "b", ":", " ", "i", "n", "t", " ", "=", " ", "1",
      ";", " ", "}", " ", "f", "u", "n", "c", " ", "m", "a", "i", "n", "(", ")", " ",
      "-", ">", " ", "i", "n", "t", " ", "{", " ", "p", "r", "i", "n", "t", " ", "g",
      "(", ")", ";", " ", "r", "e", "t", "u", "r", "n", " ", "0", ";", " ", "}">>

\* a variable assigned a sum that reads itself:
\*    func main() -> int { let a: int = 5; a = a + 1; return a; }
Increment ==
    <<"f", "u", "n", "c", " ", "m", "a", "i", "n", "(", ")", " ", "-", ">", " ", "i",
      "n", "t", " ", "{", " ", "l", "e", "t", " ", "a", ":", " ", "i", "n", "t", " ",
      "=", " ", "5", ";", " ", "a", " ", "=", " ", "a", " ", "+", " ", "1", ";", " ",
      "r", "e", "t", "u", "r", "n", " ", "a", ";", " ", "}">>

\* a variable assigned in both branches of an if:
\*    func main() -> int { let a: int = 1; let b: int = 0; if (a < 2) { b = 3; } else
\*        { b = 4; } return b; }
IfElse ==
    <<"f", "u", "n", "c", " ", "m", "a", "i", "n", "(", ")", " ", "-", ">", " ", "i",
      "n", "t", " ", "{", " ", "l", "e", "t", " ", "a", ":", " ", "i", "n", "t", " ",
      "=", " ", "1", ";", " ", "l", "e", "t", " ", "b", ":", " ", "i", "n", "t", " ",
      "=", " ", "0", ";", " ", "i", "f", " ", "(", "a", " ", "<", " ", "2", ")", " ",
      "{", " ", "b", " ", "=", " ", "3", ";", " ", "}", " ", "e", "l", "s", "e", " ",
      "{", " ", "b", " ", "=", " ", "4", ";", " ", "}", " ", "r", "e", "t", "u", "r",
      "n", " ", "b", ";", " ", "}">>

\* an if with an else inside a while:
\*    func main() -> int { let i: int = 0; while (i < 2) { if (i < 1) { i = i + 1; }
\*        else { i = i + 2; } } return i; }
LoopWithIf ==
    <<"f", "u", "n", "c", " ", "m", "a", "i", "n", "(", ")", " ", "-", ">", " ", "i",
      "n", "t", " ", "{", " ", "l", "e", "t", " ", "i", ":", " ", "i", "n", "t", " ",
      "=", " ", "0", ";", " ", "w", "h", "i", "l", "e", " ", "(", "i", " ", "<", " ",
      "2", ")", " ", "{", " ", "i", "f", " ", "(", "i", " ", "<", " ", "1", ")", " ",
      "{", " ", "i", " ", "=", " ", "i", " ", "+", " ", "1", ";", " ", "}", " ", "e",
      "l", "s", "e", " ", "{", " ", "i", " ", "=", " ", "i", " ", "+", " ", "2", ";",
      " ", "}", " ", "}", " ", "r", "e", "t", "u", "r", "n", " ", "i", ";", " ", "}">>

\* a call whose two arguments are sums of literals:
\*    func f(a: int, b: int) -> int { return a; } func main() -> int { return f(1 +
\*        2, 3 + 4); }
CallOfSums ==
    <<"f", "u", "n", "c", " ", "f", "(", "a", ":", " ", "i", "n", "t", ",", " ", "b",
      ":", " ", "i", "n", "t", ")", " ", "-", ">", " ", "i", "n", "t", " ", "{", " ",
      "r", "e", "t", "u", "r", "n", " ", "a", ";", " ", "}", " ", "f", "u", "n", "c",
      " ", "m", "a", "i", "n", "(", ")", " ", "-", ">", " ", "i", "n", "t", " ", "{",
      " ", "r", "e", "t", "u", "r", "n", " ", "f", "(", "1", " ", "+", " ", "2", ",",
      " ", "3", " ", "+", " ", "4", ")", ";", " ", "}">>

\* a caller reading its variable after a call that returns inside an if:
\*    func f(x: int) -> int { if (x > 0) { return 1; } return 0; } func main() -> int
\*        { let x: int = 7; let a: int = f(1); print x; return 0; }
ShadowAfterCall ==
    <<"f", "u", "n", "c", " ", "f", "(", "x", ":", " ", "i", "n", "t", ")", " ", "-",
      ">", " ", "i", "n", "t", " ", "{", " ", "i", "f", " ", "(", "x", " ", ">", " ",
      "0", ")", " ", "{", " ", "r", "e", "t", "u", "r", "n", " ", "1", ";", " ", "}",
      " ", "r", "e", "t", "u", "r", "n", " ", "0", ";", " ", "}", " ", "f", "u", "n",
      "c", " ", "m", "a", "i", "n", "(", ")", " ", "-", ">", " ", "i", "n", "t", " ",
      "{", " ", "l", "e", "t", " ", "x", ":", " ", "i", "n", "t", " ", "=", " ", "7",
      ";", " ", "l", "e", "t", " ", "a", ":", " ", "i", "n", "t", " ", "=", " ", "f",
      "(", "1", ")", ";", " ", "p", "r", "i", "n", "t", " ", "x", ";", " ", "r", "e",
      "t", "u", "r", "n", " ", "0", ";", " ", "}">>

\* a function with the name of a generated label:
\*    func L0() -> int { if (1 < 2) { return 1; } return 0; } func main() -> int {
\*        return L0(); }
LabelName ==
    <<"f", "u", "n", "c", " ", "L", "0", "(", ")", " ", "-", ">", " ", "i", "n", "t",
      " ", "{", " ", "i", "f", " ", "(", "1", " ", "<", " ", "2", ")", " ", "{", " ",
      "r", "e", "t", "u", "r", "n", " ", "1", ";", " ", "}", " ", "r", "e", "t", "u",
      "r", "n", " ", "0", ";", " ", "}", " ", "f", "u", "n", "c", " ", "m", "a", "i",
      "n", "(", ")", " ", "-", ">", " ", "i", "n", "t", " ", "{", " ", "r", "e", "t",
      "u", "r", "n", " ", "L", "0", "(", ")", ";", " ", "}">>

\* a source without main:
\*    func f() -> int { return 1; }
NoMain ==
    <<"f", "u", "n", "c", " ", "f", "(", ")", " ", "-", ">", " ", "i", "n", "t", " ",
      "{", " ", "r", "e", "t", "u", "r", "n", " ", "1", ";", " ", "}">>

Sources ==
    <<ScenarioA, ScenarioB, ScenarioD, SumOfVariable, ScenarioC, ScenarioCDiffer,
      ScenarioCParen, ScenarioCParenDiffer, ScenarioCPadded, ScenarioF, ScenarioFTemp,
      UnreadTotal, UnreadCount, PrintUnclosedParen, PrintUnclosedBracket,
      MissingInitializer, MissingBrace, BadCharacter, TypeMismatch, UndefinedVariable,
      ModuloByZero, DivideByZero, FaultInPrint, IndexOutOfRange, ReturnInIf,
      ReturnInWhile, ReturnInBlock, FallOffEnd, ReturnAtTop, FaultInCall, Loop,
      ReturnSequence, LeftAssociative, ModuloBinds, GetInRange, GetAtLength,
      GetNegative, ForwardCall, MutualCalls, UndefinedFunction, ArgumentOrder,
      MissingArgument, SurplusArgument, PrintFallOffEnd, Increment, IfElse, LoopWithIf,
      CallOfSums, ShadowAfterCall, LabelName, NoMain>>

----------------------------------------------------------------------------
(* Instruction lists handed to the optimizer on its own *)

\* what the code generator returns for
\*    func main() -> int { let x: int = 2 + 3 * 4; print x; return x; }
CodeScenarioA ==
    <<TAC("LABEL", <<>>, <<>>, <<"m", "a", "i", "n">>, 1),
      TAC("*", <<"3">>, <<"4">>, <<"t", "0">>, 1),
      TAC("+", <<"2">>, <<"t", "0">>, <<"t", "1">>, 1),
      TAC("ASSIGN", <<"t", "1">>, <<>>, <<"x">>, 1),
      TAC("PARAM", <<"x">>, <<>>, <<>>, 1),
      TAC("CALL", <<"p", "r", "i", "n", "t">>, <<"x">>, <<"t", "2">>, 1),
      TAC("RETURN", <<"x">>, <<>>, <<>>, 0 - 1)>>

\* what the code generator returns for
\*    func main() -> int { let s: sequence = [1,2,3]; print length(s); return 0; }
CodeScenarioB ==
    <<TAC("LABEL", <<>>, <<>>, <<"m", "a", "i", "n">>, 1),
      TAC("ASSIGN", <<"[", "]">>, <<>>, <<"t", "0">>, 0 - 1),
      TAC("STORE", <<"1">>, <<"0">>, <<"t", "0">>, 0 - 1),
      TAC("STORE", <<"2">>, <<"1">>, <<"t", "0">>, 0 - 1),
      TAC("STORE", <<"3">>, <<"2">>, <<"t", "0">>, 0 - 1),
      TAC("ASSIGN", <<"t", "0">>, <<>>, <<"s">>, 1),
      TAC("PARAM", <<"s">>, <<>>, <<>>, 1),
      TAC("CALL", <<"l", "e", "n", "g", "t", "h">>, <<"s">>, <<"t", "2">>, 1),
      TAC("PARAM", <<"t", "2">>, <<>>, <<>>, 1),
      TAC("CALL", <<"p", "r", "i", "n", "t">>, <<"t", "2">>, <<"t", "1">>, 1),
      TAC("RETURN", <<"0">>, <<>>, <<>>, 0 - 1)>>

\* what the code generator returns for
\*    func main() -> int { let x: int = 2; let y: int = x + 3; print y; return 0; }
CodeSumOfVariable ==
    <<TAC("LABEL", <<>>, <<>>, <<"m", "a", "i", "n">>, 1),
      TAC("ASSIGN", <<"2">>, <<>>, <<"x">>, 1),
      TAC("+", <<"x">>, <<"3">>, <<"t", "0">>, 1),
      TAC("ASSIGN", <<"t", "0">>, <<>>, <<"y">>, 1),
      TAC("PARAM", <<"y">>, <<>>, <<>>, 1),
      TAC("CALL", <<"p", "r", "i", "n", "t">>, <<"y">>, <<"t", "1">>, 1),
      TAC("RETURN", <<"0">>, <<>>, <<>>, 0 - 1)>>

\* what the code generator returns for
\*    func main() -> int { let a: int = 5; a = a + 0; print a; return 0; }
CodeScenarioF ==
    <<TAC("LABEL", <<>>, <<>>, <<"m", "a", "i", "n">>, 1),
      TAC("ASSIGN", <<"5">>, <<>>, <<"a">>, 1),
      TAC("+", <<"a">>, <<"0">>, <<"t", "0">>, 1),
      TAC("ASSIGN", <<"t", "0">>, <<>>, <<"a">>, 1),
      TAC("PARAM", <<"a">>, <<>>, <<>>, 1),
      TAC("CALL", <<"p", "r", "i", "n", "t">>, <<"a">>, <<"t", "1">>, 1),
      TAC("RETURN", <<"0">>, <<>>, <<>>, 0 - 1)>>

\* what the code generator returns for
\*    func main() -> int { let t0: int = 5; t0 = t0 + 0; print t0; return 0; }
CodeScenarioFTemp ==
    <<TAC("LABEL", <<>>, <<>>, <<"m", "a", "i", "n">>, 1),
      TAC("ASSIGN", <<"5">>, <<>>, <<"t", "0">>, 1),
      TAC("+", <<"t", "0">>, <<"0">>, <<"t", "0">>, 1),
      TAC("ASSIGN", <<"t", "0">>, <<>>, <<"t", "0">>, 1),
      TAC("PARAM", <<"t", "0">>, <<>>, <<>>, 1),
      TAC("CALL", <<"p", "r", "i", "n", "t">>, <<"t", "0">>, <<"t", "1">>, 1),
      TAC("RETURN", <<"0">>, <<>>, <<>>, 0 - 1)>>

\* what the code generator returns for
\*    func main() -> int { let total: int = 5; return 0; }
CodeUnreadTotal ==
    <<TAC("LABEL", <<>>, <<>>, <<"m", "a", "i", "n">>, 1),
      TAC("ASSIGN", <<"5">>, <<>>, <<"t", "o", "t", "a", "l">>, 1),
      TAC("RETURN", <<"0">>, <<>>, <<>>, 0 - 1)>>

\* what the code generator returns for
\*    func main() -> int { let count: int = 5; return 0; }
CodeUnreadCount ==
    <<TAC("LABEL", <<>>, <<>>, <<"m", "a", "i", "n">>, 1),
      TAC("ASSIGN", <<"5">>, <<>>, <<"c", "o", "u", "n", "t">>, 1),
      TAC("RETURN", <<"0">>, <<>>, <<>>, 0 - 1)>>

\* what the code generator returns for
\*    func main() -> int { print 1; let a: int = 7 / 0; print a; return 0; }
CodeDivideByZero ==
    <<TAC("LABEL", <<>>, <<>>, <<"m", "a", "i", "n">>, 1),
      TAC("PARAM", <<"1">>, <<>>, <<>>, 1),
      TAC("CALL", <<"p", "r", "i", "n", "t">>, <<"1">>, <<"t", "0">>, 1),
      TAC("/", <<"7">>, <<"0">>, <<"t", "1">>, 1),
      TAC("ASSIGN", <<"t", "1">>, <<>>, <<"a">>, 1),
      TAC("PARAM", <<"a">>, <<>>, <<>>, 1),
      TAC("CALL", <<"p", "r", "i", "n", "t">>, <<"a">>, <<"t", "2">>, 1),
      TAC("RETURN", <<"0">>, <<>>, <<>>, 0 - 1)>>

\* what the code generator returns for
\*    func main() -> int { let i: int = 0; while (i < 2) { print i; i = i + 1; } return i; }
CodeLoop ==
    <<TAC("LABEL", <<>>, <<>>, <<"m", "a", "i", "n">>, 1),
      TAC("ASSIGN", <<"0">>, <<>>, <<"i">>, 1),
      TAC("GOTO", <<>>, <<>>, <<"L", "1">>, 1),
      TAC("LABEL", <<>>, <<>>, <<"L", "0">>, 1),
      TAC("PARAM", <<"i">>, <<>>, <<>>, 1),
      TAC("CALL", <<"p", "r", "i", "n", "t">>, <<"i">>, <<"t", "0">>, 1),
      TAC("+", <<"i">>, <<"1">>, <<"t", "1">>, 1),
      TAC("ASSIGN", <<"t", "1">>, <<>>, <<"i">>, 1),
      TAC("LABEL", <<>>, <<>>, <<"L", "1">>, 1),
      TAC("<", <<"i">>, <<"2">>, <<"t", "2">>, 1),
      TAC("IF", <<"t", "2">>, <<>>, <<"L", "0">>, 1),
      TAC("LABEL", <<>>, <<>>, <<"L", "2">>, 1),
      TAC("RETURN", <<"i">>, <<>>, <<>>, 0 - 1)>>

\* t0 = a + b, never read; t1 = c + d; return t1
CodeScenarioE ==
    <<TAC("+", <<"a">>, <<"b">>, <<"t", "0">>, 1),
      TAC("+", <<"c">>, <<"d">>, <<"t", "1">>, 1),
      TAC("RETURN", <<"t", "1">>, <<>>, <<>>, 0 - 1)>>

\* t0 = a, never read; t1 = c + d; return t1
CodeDeadCopy ==
    <<TAC("ASSIGN", <<"a">>, <<>>, <<"t", "0">>, 1),
      TAC("+", <<"c">>, <<"d">>, <<"t", "1">>, 1),
      TAC("RETURN", <<"t", "1">>, <<>>, <<>>, 0 - 1)>>

\* tmp = a, never read; n = a, never read; return a
CodeUnreadTmp ==
    <<TAC("ASSIGN", <<"a">>, <<>>, <<"t", "m", "p">>, 1),
      TAC("ASSIGN", <<"a">>, <<>>, <<"n">>, 1),
      TAC("RETURN", <<"a">>, <<>>, <<>>, 0 - 1)>>

\* one instruction for each rule of algebraicSimplification
CodeAlgebra ==
    <<TAC("+", <<"x">>, <<"0">>, <<"t", "0">>, 1),
      TAC("-", <<"x">>, <<"0">>, <<"t", "1">>, 1),
      TAC("*", <<"x">>, <<"1">>, <<"t", "2">>, 1),
      TAC("*", <<"x">>, <<"0">>, <<"t", "3">>, 1),
      TAC("*", <<"0">>, <<"x">>, <<"t", "4">>, 1),
      TAC("+", <<"0">>, <<"x">>, <<"t", "5">>, 1),
      TAC("*", <<"1">>, <<"x">>, <<"t", "6">>, 1),
      TAC("%", <<"7">>, <<"2">>, <<"t", "7">>, 1),
      TAC("/", <<"-", "7">>, <<"2">>, <<"t", "8">>, 1),
      TAC("PARAM", <<"t", "0">>, <<>>, <<>>, 1),
      TAC("PARAM", <<"t", "2">>, <<>>, <<>>, 1),
      TAC("PARAM", <<"t", "8">>, <<>>, <<>>, 1)>>

\* a = a; b = a; return b
CodeSelfCopy ==
    <<TAC("ASSIGN", <<"a">>, <<>>, <<"a">>, 1),
      TAC("ASSIGN", <<"a">>, <<>>, <<"b">>, 1),
      TAC("RETURN", <<"b">>, <<>>, <<>>, 0 - 1)>>

\* the empty list
CodeEmpty ==
    <<>>

\* what the code generator returns for
\*    func main() -> int { let a: int = 5; a = a + 1; return a; }
CodeIncrement ==
    <<TAC("LABEL", <<>>, <<>>, <<"m", "a", "i", "n">>, 1),
      TAC("ASSIGN", <<"5">>, <<>>, <<"a">>, 1),
      TAC("+", <<"a">>, <<"1">>, <<"t", "0">>, 1),
      TAC("ASSIGN", <<"t", "0">>, <<>>, <<"a">>, 1),
      TAC("RETURN", <<"a">>, <<>>, <<>>, 0 - 1)>>

\* what the code generator returns for
\*    func main() -> int { let a: int = 1; let b: int = 0; if (a < 2) { b = 3; } else { b = 4; } return b; }
CodeIfElse ==
    <<TAC("LABEL", <<>>, <<>>, <<"m", "a", "i", "n">>, 1),
      TAC("ASSIGN", <<"1">>, <<>>, <<"a">>, 1),
      TAC("ASSIGN", <<"0">>, <<>>, <<"b">>, 1),
      TAC("<", <<"a">>, <<"2">>, <<"t", "0">>, 1),
      TAC("IF_FALSE", <<"t", "0">>, <<>>, <<"L", "0">>, 1),
      TAC("ASSIGN", <<"3">>, <<>>, <<"b">>, 1),
      TAC("GOTO", <<>>, <<>>, <<"L", "1">>, 1),
      TAC("LABEL", <<>>, <<>>, <<"L", "0">>, 1),
      TAC("ASSIGN", <<"4">>, <<>>, <<"b">>, 1),
      TAC("LABEL", <<>>, <<>>, <<"L", "1">>, 1),
      TAC("RETURN", <<"b">>, <<>>, <<>>, 0 - 1)>>

\* what the code generator returns for
\*    func f(a: int, b: int) -> int { return a; } func main() -> int { return f(1 + 2, 3 + 4); }
CodeCallOfSums ==
    <<TAC("LABEL", <<>>, <<>>, <<"f">>, 1),
      TAC("ASSIGN", <<"p", "a", "r", "a", "m", "_", "a">>, <<>>, <<"a">>, 1),
      TAC("ASSIGN", <<"p", "a", "r", "a", "m", "_", "b">>, <<>>, <<"b">>, 1),
      TAC("RETURN", <<"a">>, <<>>, <<>>, 0 - 1),
      TAC("LABEL", <<>>, <<>>, <<"m", "a", "i", "n">>, 1),
      TAC("+", <<"1">>, <<"2">>, <<"t", "1">>, 1),
      TAC("PARAM", <<"t", "1">>, <<>>, <<>>, 1),
      TAC("+", <<"3">>, <<"4">>, <<"t", "2">>, 1),
      TAC("PARAM", <<"t", "2">>, <<>>, <<>>, 1),
      TAC("CALL", <<"f">>, <<"t", "1", ",", " ", "t", "2">>, <<"t", "0">>, 1),
      TAC("RETURN", <<"t", "0">>, <<>>, <<>>, 0 - 1)>>

\* operators on literals of every form isConstant accepts, and on operands it
\* rejects
CodeFolding ==
    <<TAC("+", <<"+", "5">>, <<"0", "0", "7">>, <<"t", "0">>, 1),
      TAC("-", <<"3">>, <<"5">>, <<"t", "1">>, 1),
      TAC("*", <<"-", "3">>, <<"4">>, <<"t", "2">>, 1),
      TAC("/", <<"-", "7">>, <<"2">>, <<"t", "3">>, 1),
      TAC("/", <<"7">>, <<"-", "2">>, <<"t", "4">>, 1),
      TAC("/", <<"-", "7">>, <<"-", "2">>, <<"t", "5">>, 1),
      TAC("/", <<"6">>, <<"3">>, <<"t", "6">>, 1),
      TAC("/", <<"7">>, <<"0">>, <<"t", "7">>, 1),
      TAC("/", <<"0">>, <<"5">>, <<"t", "8">>, 1),
      TAC("%", <<"7">>, <<"2">>, <<"t", "9">>, 1),
      TAC("==", <<"1">>, <<"1">>, <<"t", "1", "0">>, 1),
      TAC("+", <<"1", ".", "5">>, <<"2">>, <<"t", "1", "1">>, 1),
      TAC("+", <<"a">>, <<"1">>, <<"t", "1", "2">>, 1),
      TAC("-", <<"-">>, <<"1">>, <<"t", "1", "3">>, 1),
      TAC("*", <<"2">>, <<>>, <<"t", "1", "4">>, 1),
      TAC("ASSIGN", <<"4">>, <<>>, <<"x">>, 1),
      TAC("RETURN", <<"x">>, <<>>, <<>>, 0 - 1)>>

OptimizerInputs ==
    {CodeScenarioA, CodeScenarioB, CodeSumOfVariable, CodeScenarioF,
     CodeScenarioFTemp, CodeUnreadTotal, CodeUnreadCount, CodeDivideByZero,
     CodeLoop, CodeScenarioE, CodeDeadCopy, CodeUnreadTmp, CodeAlgebra,
     CodeSelfCopy, CodeEmpty,
     CodeIncrement, CodeIfElse, CodeCallOfSums, CodeFolding}

----------------------------------------------------------------------------
(* The driver: main *)

\* the outcomes modelled for the undefined conversion: any long long can
\* result, of which these are three
UBCastValues == {0 - 1, 0, 1}

UBParentValues == {"null", "wild"}

NotExited == 0 - 1

\* what main writes after "; Program Output"
programOutput(result) ==
    IF result.success
    THEN [executed |-> TRUE, lines |-> result.outputLog, exitCode |-> result.exitCode]
    ELSE [executed |-> FALSE, skipped |-> result.errorMessage]

OptimizerIdle == code = <<>> /\ input = <<>> /\ round = 0 /\ first = <<>>

TableIdle == manager = Null /\ returned = Null

TypeIdle == typing = Null

MainInit ==
    /\ source \in {Sources[i] : i \in 1..Len(Sources)}
    /\ enableOptimization \in BOOLEAN
    /\ ubCast \in UBCastValues
    /\ ubParent \in UBParentValues
    /\ pc = "lex"
    /\ lexer = LexerInit
    /\ tokens = <<>>
    /\ program = Null
    /\ semantic = Null
    /\ intermediateCode = <<>>
    /\ finalCode = <<>>
    /\ executionResult = Null
    /\ interpreter = Null
    /\ finalOutput = Null
    /\ stdout = <<>>
    /\ exitStatus = NotExited
    /\ codegen = Null
    /\ OptimizerIdle
    /\ TableIdle
    /\ TypeIdle

\* Phase 1: one iteration of the loop of tokenize, which takes the next token
\* and pushes it.  END_OF_FILE ends the loop and the phase; ERROR ends the
\* loop and main returns 1.
Lex ==
    /\ pc = "lex"
    /\ LET n == nextToken(source, lexer)
       IN  /\ lexer' = n.l
           /\ tokens' = Append(tokens, n.token)
           /\ CASE n.token.type = "ERROR" -> pc' = "exit" /\ exitStatus' = 1
                [] n.token.type = "END_OF_FILE" -> pc' = "parse" /\ UNCHANGED exitStatus
                [] OTHER -> UNCHANGED <<pc, exitStatus>>
    /\ stdout' = IF tokens = <<>> THEN Append(stdout, "Phase 1: Lexical Analysis") ELSE stdout
    /\ UNCHANGED <<ubCast, ubParent, codegen, source, enableOptimization, program, semantic,
                   intermediateCode, finalCode, executionResult, interpreter, finalOutput>>
    /\ UNCHANGED optimizerVars
    /\ UNCHANGED tableVars
    /\ UNCHANGED typeVars

\* Phase 2, and return 1 if the parser returned nullptr
Parse ==
    /\ pc = "parse"
    /\ program' = parse(tokens)
    /\ stdout' = Append(stdout, "Phase 2: Syntax Analysis")
    /\ IF program' = Null
       THEN pc' = "exit" /\ exitStatus' = 1
       ELSE pc' = "analyze" /\ UNCHANGED exitStatus
    /\ UNCHANGED <<ubCast, ubParent, codegen, source, enableOptimization, lexer, tokens, semantic,
                   intermediateCode, finalCode, executionResult, interpreter, finalOutput>>
    /\ UNCHANGED optimizerVars
    /\ UNCHANGED tableVars
    /\ UNCHANGED typeVars

\* Phase 3, and return 1 if analyze() returned false.  A lookup through the
\* wild parent pointer ends the process.
Analyze ==
    /\ pc = "analyze"
    /\ semantic' = analyze(program)
    /\ stdout' = Append(stdout, "Phase 3: Semantic Analysis")
    /\ IF semantic'.crashed
       THEN pc' = "crashed" /\ UNCHANGED exitStatus
       ELSE IF ~analysisSucceeded(semantic')
       THEN pc' = "exit" /\ exitStatus' = 1
       ELSE pc' = "generate" /\ UNCHANGED exitStatus
    /\ UNCHANGED <<ubCast, ubParent, codegen, source, enableOptimization, lexer, tokens, program,
                   intermediateCode, finalCode, executionResult, interpreter, finalOutput>>
    /\ UNCHANGED optimizerVars
    /\ UNCHANGED tableVars
    /\ UNCHANGED typeVars

\* Phase 4
Generate ==
    /\ pc = "generate"
    /\ codegen' = generate(GenInit, program)
    /\ intermediateCode' = codegen'.code
    /\ stdout' = Append(stdout, "Phase 4: Intermediate Code Generation")
    /\ pc' = "optimize"
    /\ UNCHANGED <<ubCast, ubParent, source, enableOptimization, lexer, tokens, program, semantic,
                   finalCode, executionResult, interpreter, finalOutput, exitStatus>>
    /\ UNCHANGED optimizerVars
    /\ UNCHANGED tableVars
    /\ UNCHANGED typeVars

\* Phase 5 with optimization enabled
Optimize ==
    /\ pc = "optimize"
    /\ enableOptimization
    /\ finalCode' = optimize(intermediateCode)
    /\ stdout' = Append(stdout, "Phase 5: Optimization")
    /\ pc' = "interpret"
    /\ UNCHANGED <<ubCast, ubParent, codegen, source, enableOptimization, lexer, tokens, program, semantic,
                   intermediateCode, executionResult, interpreter, finalOutput, exitStatus>>
    /\ UNCHANGED optimizerVars
    /\ UNCHANGED tableVars
    /\ UNCHANGED typeVars

\* Phase 5 under -no-opt
SkipOptimization ==
    /\ pc = "optimize"
    /\ ~enableOptimization
    /\ finalCode' = intermediateCode
    /\ stdout' = Append(stdout, "Optimization skipped.")
    /\ pc' = "interpret"
    /\ UNCHANGED <<ubCast, ubParent, codegen, source, enableOptimization, lexer, tokens, program, semantic,
                   intermediateCode, executionResult, interpreter, finalOutput, exitStatus>>
    /\ UNCHANGED optimizerVars
    /\ UNCHANGED tableVars
    /\ UNCHANGED typeVars

\* Phase 6, first half: the program is interpreted
Interpret ==
    /\ pc = "interpret"
    /\ LET ran == run(program)
       IN  executionResult' = ran.result /\ interpreter' = ran.final
    /\ stdout' = Append(stdout, "Phase 6: Final Code Output")
    /\ pc' = "emit"
    /\ UNCHANGED <<ubCast, ubParent, codegen, source, enableOptimization, lexer, tokens, program, semantic,
                   intermediateCode, finalCode, finalOutput, exitStatus>>
    /\ UNCHANGED optimizerVars
    /\ UNCHANGED tableVars
    /\ UNCHANGED typeVars

\* Phase 6, second half: the final output is written and main returns 0
EmitOutput ==
    /\ pc = "emit"
    /\ finalOutput' = [instructions |-> finalCode,
                       programOutput |-> programOutput(executionResult)]
    /\ pc' = "exit"
    /\ exitStatus' = 0
    /\ UNCHANGED <<ubCast, ubParent, codegen, source, enableOptimization, lexer, tokens, program, semantic,
                   intermediateCode, finalCode, executionResult, interpreter, stdout>>
    /\ UNCHANGED optimizerVars
    /\ UNCHANGED tableVars
    /\ UNCHANGED typeVars

Next ==
    \/ Lex
    \/ Parse
    \/ Analyze
    \/ Generate
    \/ Optimize
    \/ SkipOptimization
    \/ Interpret
    \/ EmitOutput

Spec == MainInit /\ [][Next]_vars

----------------------------------------------------------------------------
(* The optimizer on its own: an Optimizer is constructed with a list, *)
(* optimize() runs its five passes in order, and a second Optimizer can be *)
(* constructed with what the first returned *)

MaxRounds == 2

PipelineIdle ==
    /\ source = <<>>
    /\ enableOptimization = TRUE
    /\ lexer = LexerInit
    /\ tokens = <<>>
    /\ program = Null
    /\ semantic = Null
    /\ intermediateCode = <<>>
    /\ finalCode = <<>>
    /\ executionResult = Null
    /\ interpreter = Null
    /\ finalOutput = Null
    /\ stdout = <<>>
    /\ exitStatus = NotExited
    /\ codegen = Null

MainIdle == ubCast = 0 /\ ubParent = "null" /\ PipelineIdle

OptInit ==
    /\ input \in OptimizerInputs
    /\ code = input
    /\ round = 1
    /\ first = <<>>
    /\ pc = "fold"
    /\ MainIdle
    /\ TableIdle
    /\ TypeIdle

ConstantFolding ==
    /\ pc = "fold"
    /\ code' = constantFolding(code)
    /\ pc' = "propagate"
    /\ UNCHANGED <<input, round, first, ubCast, ubParent>>
    /\ UNCHANGED mainVars
    /\ UNCHANGED tableVars
    /\ UNCHANGED typeVars

ConstantPropagation ==
    /\ pc = "propagate"
    /\ code' = constantPropagation(code)
    /\ pc' = "simplify"
    /\ UNCHANGED <<input, round, first, ubCast, ubParent>>
    /\ UNCHANGED mainVars
    /\ UNCHANGED tableVars
    /\ UNCHANGED typeVars

AlgebraicSimplification ==
    /\ pc = "simplify"
    /\ code' = algebraicSimplification(code)
    /\ pc' = "redundant"
    /\ UNCHANGED <<input, round, first, ubCast, ubParent>>
    /\ UNCHANGED mainVars
    /\ UNCHANGED tableVars
    /\ UNCHANGED typeVars

RemoveRedundantAssignments ==
    /\ pc = "redundant"
    /\ code' = removeRedundantAssignments(code)
    /\ pc' = "dce"
    /\ UNCHANGED <<input, round, first, ubCast, ubParent>>
    /\ UNCHANGED mainVars
    /\ UNCHANGED tableVars
    /\ UNCHANGED typeVars

\* the last pass; optimize() returns code
DeadCodeElimination ==
    /\ pc = "dce"
    /\ code' = deadCodeElimination(code)
    /\ first' = IF round = 1 THEN code' ELSE first
    /\ pc' = "done"
    /\ UNCHANGED <<input, round, ubCast, ubParent>>
    /\ UNCHANGED mainVars
    /\ UNCHANGED tableVars
    /\ UNCHANGED typeVars

\* an Optimizer constructed with the list the previous one returned
Reoptimize ==
    /\ pc = "done"
    /\ round < MaxRounds
    /\ input' = code
    /\ round' = round + 1
    /\ pc' = "fold"
    /\ UNCHANGED <<code, first, ubCast, ubParent>>
    /\ UNCHANGED mainVars
    /\ UNCHANGED tableVars
    /\ UNCHANGED typeVars

OptNext ==
    \/ ConstantFolding
    \/ ConstantPropagation
    \/ AlgebraicSimplification
    \/ RemoveRedundantAssignments
    \/ DeadCodeElimination
    \/ Reoptimize

OptSpec == OptInit /\ [][OptNext]_vars

----------------------------------------------------------------------------
(* A SymbolTableManager driven one call at a time *)

MaxScopes == 3

TableNames == {<<"x">>, <<"y">>}

TableTypes == {"INT", "BOOL"}

\* the record of a call: the manager it was made on, whether the call has a
\* defined outcome, and what it returned (Null for a function returning void
\* and for a null Symbol pointer)
TableCall(op, name, before, defined, value) ==
    [op |-> op, name |-> name, before |-> before, defined |-> defined, value |-> value]

\* current holds the unset pointer that the global table got as its parent
currentIsWild(m) == m.wild /\ m.tables = << >>

TableInit ==
    /\ pc = "table"
    /\ ubParent \in UBParentValues
    /\ ubCast = 0
    /\ manager = SymbolTableManager
    /\ returned = Null
    /\ PipelineIdle
    /\ OptimizerIdle
    /\ TypeIdle

\* a call that dereferences the unset pointer
TableFault(op, name) ==
    /\ returned' = TableCall(op, name, manager, FALSE, Null)
    /\ pc' = "crashed"
    /\ UNCHANGED manager

EnterScope ==
    /\ pc = "table"
    /\ Len(manager.tables) < MaxScopes
    /\ manager' = enterScope(manager)
    /\ returned' = TableCall("enterScope", << >>, manager, TRUE, Null)
    /\ UNCHANGED <<pc, ubCast, ubParent>>
    /\ UNCHANGED mainVars
    /\ UNCHANGED optimizerVars
    /\ UNCHANGED typeVars

\* current && current->getParent() reads through current
ExitScope ==
    /\ pc = "table"
    /\ IF currentIsWild(manager)
       THEN TableFault("exitScope", << >>)
       ELSE /\ manager' = exitScope(manager)
            /\ returned' = TableCall("exitScope", << >>, manager, TRUE, Null)
            /\ UNCHANGED pc
    /\ UNCHANGED <<ubCast, ubParent>>
    /\ UNCHANGED mainVars
    /\ UNCHANGED optimizerVars
    /\ UNCHANGED typeVars

\* declareSymbol(name, type): initialized and constant take their defaults
DeclareSymbol ==
    /\ pc = "table"
    /\ \E name \in TableNames, type \in TableTypes :
        IF currentIsWild(manager)
        THEN TableFault("declareSymbol", name)
        ELSE /\ manager' = declareSymbol(manager, name, type, FALSE)
             /\ returned' = TableCall("declareSymbol", name, manager, TRUE,
                                      canDeclare(manager, name))
             /\ UNCHANGED pc
    /\ UNCHANGED <<ubCast, ubParent>>
    /\ UNCHANGED mainVars
    /\ UNCHANGED optimizerVars
    /\ UNCHANGED typeVars

\* a lookup that finds name in no table goes on to the global table's parent
LookupSymbol ==
    /\ pc = "table"
    /\ \E name \in TableNames :
        IF currentIsWild(manager) \/ lookupIsWild(manager, name)
        THEN TableFault("lookupSymbol", name)
        ELSE /\ returned' = TableCall("lookupSymbol", name, manager, TRUE,
                                      lookupSymbol(manager, name))
             /\ UNCHANGED <<pc, manager>>
    /\ UNCHANGED <<ubCast, ubParent>>
    /\ UNCHANGED mainVars
    /\ UNCHANGED optimizerVars
    /\ UNCHANGED typeVars

TableNext ==
    \/ EnterScope
    \/ ExitScope
    \/ DeclareSymbol
    \/ LookupSymbol

TableSpec == TableInit /\ [][TableNext]_vars

----------------------------------------------------------------------------
(* A SemanticAnalyzer given one statement with a target and a value type *)

DataTypes == {"INT", "FLOAT", "BOOL", "SEQUENCE", "PATTERN", "VOID", "UNKNOWN"}

ValueName == Token("IDENTIFIER", <<"v">>, 1)

TargetName == Token("IDENTIFIER", <<"t">>, 1)

FreshName == Token("IDENTIFIER", <<"u">>, 1)

\* the analyzer as analyzeFunction has it before the body of a function
\* with the parameters v: value and t: target and the return type target
insideFunction(target, value) ==
    declareParameters(
        [AnalyzerInit EXCEPT !.symbolManager = enterScope(@), !.inFunction = TRUE,
                             !.currentFunctionReturnType = target],
        <<[first |-> ValueName, second |-> value],
          [first |-> TargetName, second |-> target]>>, 1)

\* let u: target = v;   t = v;   return v;
TypedStatement(form, target) ==
    CASE form = "declaration" ->
            DeclarationStmt(FreshName, target, VariableExpr(ValueName))
      [] form = "assignment" -> AssignmentStmt(TargetName, VariableExpr(ValueName))
      [] form = "return" -> ReturnStmt(VariableExpr(ValueName))

Typing(target, value, form, analyzer) ==
    [target |-> target, value |-> value, form |-> form, analyzer |-> analyzer]

TypeInit ==
    /\ pc = "typing"
    /\ ubParent \in UBParentValues
    /\ ubCast = 0
    /\ \E target \in DataTypes, value \in DataTypes :
            typing = Typing(target, value, "none", insideFunction(target, value))
    /\ PipelineIdle
    /\ OptimizerIdle
    /\ TableIdle

analyzeTyped(form) ==
    /\ typing' = [typing EXCEPT
            !.form = form,
            !.analyzer = analyzeStatement(@, TypedStatement(form, typing.target))]
    /\ pc' = "typed"
    /\ UNCHANGED <<ubCast, ubParent>>
    /\ UNCHANGED mainVars
    /\ UNCHANGED optimizerVars
    /\ UNCHANGED tableVars

AnalyzeTypedDeclaration ==
    /\ pc = "typing"
    /\ analyzeTyped("declaration")

AnalyzeTypedAssignment ==
    /\ pc = "typing"
    /\ analyzeTyped("assignment")

AnalyzeTypedReturn ==
    /\ pc = "typing"
    /\ analyzeTyped("return")

TypeNext ==
    \/ AnalyzeTypedDeclaration
    \/ AnalyzeTypedAssignment
    \/ AnalyzeTypedReturn

TypeSpec == TypeInit /\ [][TypeNext]_vars

----------------------------------------------------------------------------
(* The lists handed to the optimizer on its own are what the pipeline *)
(* generates for the sources they are named after *)

CodeOf(src) ==
    CASE src = ScenarioA -> CodeScenarioA
      [] src = ScenarioB -> CodeScenarioB
      [] src = SumOfVariable -> CodeSumOfVariable
      [] src = ScenarioF -> CodeScenarioF
      [] src = ScenarioFTemp -> CodeScenarioFTemp
      [] src = UnreadTotal -> CodeUnreadTotal
      [] src = UnreadCount -> CodeUnreadCount
      [] src = DivideByZero -> CodeDivideByZero
      [] src = Loop -> CodeLoop
      [] src = Increment -> CodeIncrement
      [] src = IfElse -> CodeIfElse
      [] src = CallOfSums -> CodeCallOfSums
      [] OTHER -> <<>>

CodeListsAreGenerated ==
    (pc \in {"optimize", "interpret", "emit"} /\ CodeOf(source) # <<>>)
        => intermediateCode = CodeOf(source)

----------------------------------------------------------------------------
(* Properties of the optimizer *)

\* C1: optimizing what optimize() returned returns the same list again
OptimizeIsIdempotent ==
    (pc = "done" /\ round = 2) => code = first

\* a name of the form the code generator gives its temporaries: t and digits
isTemporaryName(name) ==
    /\ Len(name) >= 2
    /\ name[1] = "t"
    /\ \A i \in 2..Len(name) : IsDigit(name[i])

isUserAssign(instr) == instr.op = "ASSIGN" /\ ~isTemporaryName(instr.result)

\* C2: dead-code elimination keeps every Assign to a user-named variable, in
\* order, whether or not the variable is read
DeadCodeEliminationKeepsUserAssigns ==
    [][DeadCodeElimination
        => SelectSeq(code', isUserAssign) = SelectSeq(code, isUserAssign)]_vars

definesT0(instr) == instr.result = <<"t", "0">>

definesT1(instr) == instr.result = <<"t", "1">>

\* C10 as stated: on the list of Scenario E, dead-code elimination removes the
\* instruction defining t0 and keeps the one defining t1
ScenarioERemovesT0 ==
    [][(DeadCodeElimination /\ input = CodeScenarioE /\ round = 1)
        => /\ SelectSeq(code', definesT0) = <<>>
           /\ SelectSeq(code', definesT1) = SelectSeq(code, definesT1)]_vars

\* C10: dead-code elimination removes the definition of an unread temporary
\* only when it is a plain Assign.  On the list of Scenario E, whose t0 is
\* defined by a binary operator, it removes nothing; on the same list with
\* t0 = a in place of t0 = a + b it removes that instruction and keeps the
\* one defining t1.
ScenarioEKeepsT0 ==
    [][DeadCodeElimination
        => /\ (input = CodeScenarioE /\ round = 1)
                => code = CodeScenarioE /\ code' = code
           /\ (input = CodeDeadCopy /\ round = 1)
                => code = CodeDeadCopy /\ code' = Tail(code)]_vars

ScenarioEOptimized ==
    /\ pc = "done"
    /\ round = 1
    /\ input = CodeScenarioE
    /\ SelectSeq(code, definesT0) # <<>>
    /\ SelectSeq(code, definesT1) # <<>>

----------------------------------------------------------------------------
(* Properties of the interpreter *)

\* the calls of user functions that ended by falling off the end of the body
\* or by a Return
finishedCalls ==
    IF interpreter = Null THEN <<>>
    ELSE LET finished(call) == call.how \in {"end", "return"}
         IN  SelectSeq(interpreter.calls, finished)

\* C3: after every user function call that fell off the end or returned, the
\* scope stack holds as many frames as before the call
FramesBalanced ==
    \A i \in 1..Len(finishedCalls) : finishedCalls[i].after = finishedCalls[i].before

\* C4: a run in which a runtime error was raised is a failure with that error
\* message, and its output log is the lines printed before the fault
RuntimeErrorIsFailure ==
    (executionResult # Null /\ executionResult.errorMessage # NoMessage)
        => /\ ~executionResult.success
           /\ executionResult.outputLog = interpreter.outputLog

\* the sources that divide or take a remainder by zero on the path they run
ZeroDivisors == {ModuloByZero, DivideByZero, FaultInPrint, FaultInCall}

\* C7: a run that divides or takes a remainder by zero fails with an error
\* message
DivisionByZeroFails ==
    (source \in ZeroDivisors /\ executionResult # Null)
        => /\ ~executionResult.success
           /\ executionResult.errorMessage # NoMessage

----------------------------------------------------------------------------
(* Properties of the parser *)

\* the sources that violate the grammar
Ungrammatical ==
    {ScenarioC, ScenarioCDiffer, PrintUnclosedParen, PrintUnclosedBracket,
     MissingInitializer, MissingBrace}

\* C5: parsing a source that violates the grammar yields no program, and
\* main returns 1 after it
ParseIsAllOrNothing ==
    (source \in Ungrammatical /\ pc \notin {"lex", "parse"})
        => program = Null /\ pc = "exit" /\ exitStatus = 1

----------------------------------------------------------------------------
(* Properties of the pipeline *)

LaterPhaseBanners ==
    {"Phase 4: Intermediate Code Generation", "Phase 5: Optimization",
     "Optimization skipped.", "Phase 6: Final Code Output"}

laterPhaseRan ==
    \/ \E i \in 1..Len(stdout) : stdout[i] \in LaterPhaseBanners
    \/ intermediateCode # <<>>
    \/ finalCode # <<>>
    \/ executionResult # Null
    \/ finalOutput # Null

\* C6: code generation, optimization and interpretation run only after the
\* parser has returned a program and the analysis has reported no error;
\* after a failed parse or an analysis with errors main returns 1 and none of
\* them has run; and a run that fails is followed by the emission of the
\* generated (and optimized) instructions, main returning 0
PipelineOrdering ==
    /\ (laterPhaseRan \/ pc \in {"generate", "optimize", "interpret", "emit"})
        => /\ program # Null
           /\ semantic # Null
           /\ semantic.errors = <<>>
    /\ (pc = "exit" /\ (program = Null \/ (semantic # Null /\ semantic.errors # <<>>)))
        => ~laterPhaseRan /\ exitStatus = 1
    /\ (pc = "exit" /\ executionResult # Null /\ ~executionResult.success)
        => /\ exitStatus = 0
           /\ finalOutput # Null
           /\ finalOutput.instructions = finalCode
           /\ finalCode = IF enableOptimization THEN optimize(intermediateCode)
                          ELSE intermediateCode
           /\ intermediateCode = generate(GenInit, program).code

FailedRunEmitted ==
    /\ pc = "exit"
    /\ executionResult # Null
    /\ ~executionResult.success
    /\ finalOutput # Null
    /\ finalOutput.instructions # <<>>

----------------------------------------------------------------------------
(* Scenarios *)

TrueText == <<"t", "r", "u", "e">>

FalseText == <<"f", "a", "l", "s", "e">>

ranToEnd == pc = "exit" /\ exitStatus = 0 /\ executionResult # Null /\ executionResult.success

\* C8 as stated: print 1==1 and print 1==2 parse, analyze and run, and log
\* the single line true, respectively false
ScenarioCRuns ==
    /\ (source = ScenarioC /\ pc \in {"exit", "crashed"})
            => ranToEnd /\ executionResult.outputLog = <<TrueText>>
    /\ (source = ScenarioCDiffer /\ pc \in {"exit", "crashed"})
            => ranToEnd /\ executionResult.outputLog = <<FalseText>>

\* C8: with the comparison in parentheses the source parses, analyzes and
\* runs, and logs the single line true when the two literals print alike
\* (1==1, and 01==1 whose left literal prints as 1) and false otherwise
\* (1==2); without the parentheses the parser returns no program and main
\* returns 1
ScenarioCNeedsParentheses ==
    /\ (source \in {ScenarioCParen, ScenarioCPadded} /\ pc \in {"exit", "crashed"})
            => ranToEnd /\ executionResult.outputLog = <<TrueText>>
    /\ (source = ScenarioCParenDiffer /\ pc \in {"exit", "crashed"})
            => ranToEnd /\ executionResult.outputLog = <<FalseText>>
    /\ (source \in {ScenarioC, ScenarioCDiffer} /\ pc \in {"exit", "crashed"})
            => program = Null /\ exitStatus = 1 /\ executionResult = Null

ScenarioCParenRan ==
    /\ source = ScenarioCParenDiffer
    /\ ranToEnd
    /\ executionResult.outputLog = <<FalseText>>

writesAOrT0(instr) == instr.result \in {<<"a">>, <<"t", "0">>}

OptimizedScenarioF ==
    <<TAC("LABEL", <<>>, <<>>, <<"m", "a", "i", "n">>, 1),
      TAC("ASSIGN", <<"5">>, <<>>, <<"a">>, 1),
      TAC("ASSIGN", <<"5">>, <<>>, <<"t", "0">>, 1),
      TAC("ASSIGN", <<"t", "0">>, <<>>, <<"a">>, 1),
      TAC("PARAM", <<"5">>, <<>>, <<>>, 1),
      TAC("CALL", <<"p", "r", "i", "n", "t">>, <<"5">>, <<"t", "1">>, 1),
      TAC("RETURN", <<"0">>, <<>>, <<>>, 0 - 1)>>

----------------------------------------------------------------------------
(* Operator precedence and the exit code *)

\* a finished run that logged the single line text and exited with status
loggedAndReturned(text, status) ==
    /\ ranToEnd
    /\ executionResult.outputLog = <<text>>
    /\ executionResult.exitCode = status

\* C11: the product, quotient and remainder operators bind tighter than sum
\* and difference and every level groups to the left, and the exit code of
\* a run whose main returns an integer is that integer: 2 + 3 * 4 logs 14
\* and exits with 14, 20 - 8 / 4 / 2 - 3 logs 16 and exits with 16, and
\* 7 - 9 % 4 * 2 logs 5 and exits with 5
ScenarioAPrecedence ==
    /\ (source = ScenarioA /\ pc \in {"exit", "crashed"})
            => loggedAndReturned(<<"1", "4">>, 14)
    /\ (source = LeftAssociative /\ pc \in {"exit", "crashed"})
            => loggedAndReturned(<<"1", "6">>, 16)
    /\ (source = ModuloBinds /\ pc \in {"exit", "crashed"})
            => loggedAndReturned(<<"5">>, 5)

ScenarioARan ==
    /\ source = ScenarioA
    /\ loggedAndReturned(<<"1", "4">>, 14)

----------------------------------------------------------------------------
(* The built-in get *)

OutOfRangeText == "Runtime error: sequence index out of range"

\* a finished run that failed with the out-of-range message after logging log
failedOutOfRange(log) ==
    /\ pc = "exit"
    /\ executionResult # Null
    /\ ~executionResult.success
    /\ executionResult.errorMessage = Message(OutOfRangeText, <<>>)
    /\ executionResult.outputLog = log

\* C12: get(s, i) yields element i of s, counted from zero, when
\* 0 <= i < length(s), and raises a runtime error that fails the run for
\* every other index: on [7,8] the indices 0 and 1 yield 7 and 8, the
\* indices 2 and -1 fail the run after the line logged before the call, and
\* on [1,2] the index 5 of Scenario D fails the run with an empty log
GetChecksItsIndex ==
    /\ (source = GetInRange /\ pc \in {"exit", "crashed"})
            => ranToEnd /\ executionResult.outputLog = << <<"7">>, <<"8">> >>
    /\ (source \in {GetAtLength, GetNegative} /\ pc \in {"exit", "crashed"})
            => failedOutOfRange(<< <<"3">> >>)
    /\ (source = ScenarioD /\ pc \in {"exit", "crashed"})
            => failedOutOfRange(<<>>)

ScenarioDFailed ==
    /\ source = ScenarioD
    /\ failedOutOfRange(<<>>)

----------------------------------------------------------------------------
(* A program without main *)

\* C13: for a program with no function named main, run() returns a failure
\* with a non-empty error message and executes nothing: the output log is
\* empty, no scope frame was pushed and no function was called
NoMainRunsNothing ==
    (source = NoMain /\ pc \in {"emit", "exit"}) =>
        /\ ~executionResult.success
        /\ executionResult.errorMessage # NoMessage
        /\ executionResult.errorMessage.msg # ""
        /\ executionResult.outputLog = <<>>
        /\ interpreter.outputLog = <<>>
        /\ interpreter.scopes = <<>>
        /\ interpreter.calls = <<>>

NoMainRan ==
    /\ source = NoMain
    /\ pc = "emit"
    /\ ~executionResult.success
    /\ interpreter.scopes = <<>>

----------------------------------------------------------------------------
(* The scope table *)

\* the frames of m, innermost last, that hold name
holders(m, name) == {i \in 1..Len(m.tables) : name \in DOMAIN m.tables[i]}

innermost(frames) == CHOOSE i \in frames : \A j \in frames : j <= i

\* C14: after any sequence of enterScope, exitScope and declareSymbol calls,
\* declareSymbol(name) returns false exactly when name is declared in the
\* current frame, and then changes nothing; otherwise it returns true, the
\* current frame gains name, and the enclosing frames, those that hold name
\* included, are as they were
DeclareFailsOnlyInCurrentFrame ==
    (returned # Null /\ returned.op = "declareSymbol") =>
        /\ returned.defined
        /\ Len(manager.tables) = Len(returned.before.tables)
        /\ \A i \in 1..(Len(manager.tables) - 1) :
                manager.tables[i] = returned.before.tables[i]
        /\ returned.value =
                (Len(returned.before.tables) \notin holders(returned.before, returned.name))
        /\ ~returned.value => manager = returned.before
        /\ returned.value => Len(manager.tables) \in holders(manager, returned.name)

\* C15: after any sequence of enterScope, exitScope and declareSymbol calls,
\* lookupSymbol(name) returns the symbol of the innermost frame, on the chain
\* from the current frame to the global one, that holds name, and a null
\* pointer when no frame of the chain holds it
LookupFindsInnermost ==
    (returned # Null /\ returned.op = "lookupSymbol") =>
        /\ returned.defined
        /\ returned.value =
                IF holders(returned.before, returned.name) = {} THEN Null
                ELSE returned.before.tables[
                        innermost(holders(returned.before, returned.name))][returned.name]

\* the manager holds the global frame only
atGlobalFrame(m) == ~m.wild /\ Len(m.tables) = 1

\* C16: exitScope called while the current frame is the global frame leaves
\* the current frame, the depth counter and every declared symbol as they
\* were
ExitAtGlobalChangesNothing ==
    (returned # Null /\ returned.op = "exitScope" /\ atGlobalFrame(returned.before)) =>
        /\ returned.defined
        /\ manager = returned.before

----------------------------------------------------------------------------
(* The result of the semantic analysis *)

\* analyze() has returned
analyzed == semantic # Null /\ ~semantic.crashed

\* main went on after analyze(), which it does when analyze() returned true
analyzeReturnedTrue == ~(pc = "exit" /\ exitStatus = 1)

\* C17: analyze() returns true exactly when the list of errors is empty,
\* whatever the list of warnings holds; a program without a proper main and
\* without another violation gets a warning and no error, and analyze()
\* returns true for it
AnalyzeTrueIffNoErrors ==
    /\ analyzed => (analyzeReturnedTrue <=> semantic.errors = <<>>)
    /\ (analyzed /\ source = NoMain) =>
            /\ semantic.warnings # <<>>
            /\ semantic.errors = <<>>
            /\ analyzeReturnedTrue

NoMainAnalyzed ==
    /\ analyzed
    /\ source = NoMain
    /\ semantic.warnings # <<>>
    /\ pc = "generate"

----------------------------------------------------------------------------
(* Calls of functions that are defined further down *)

UndefinedFunctionText == "Undefined function"

functionNames(prog) == {prog.functions[i].name.lexeme : i \in 1..Len(prog.functions)}

\* the names the analyzer reported as undefined functions
reportedUndefined(sa) ==
    {sa.errors[i].name : i \in {j \in 1..Len(sa.errors) :
                                    sa.errors[j].msg = UndefinedFunctionText}}

\* C18: every function name is declared before any function body is
\* analyzed, so no call of a function the program defines, however far down,
\* is reported as an undefined function: the source that calls f ahead of
\* its definition and the source whose a and b call each other are analyzed
\* without an error, and the only name ever reported is one the program
\* does not define
ForwardCallsAreDefined ==
    analyzed =>
        /\ reportedUndefined(semantic) \cap functionNames(program) = {}
        /\ source \in {ForwardCall, MutualCalls} => semantic.errors = <<>>
        /\ source = UndefinedFunction => reportedUndefined(semantic) = {<<"g">>}

MutualCallsAnalyzed ==
    /\ analyzed
    /\ source = MutualCalls
    /\ semantic.errors = <<>>
    /\ pc = "generate"

----------------------------------------------------------------------------
(* The type rule of assignments *)

\* the pairs the rule accepts: equal types, and an Int value for a Float
\* target
assignable(target, value) == target = value \/ (target = "FLOAT" /\ value = "INT")

\* C19: a declaration's initializer, an assigned value and a returned value
\* of type value are accepted for a target of type target, both other than
\* Unknown, exactly when the two types are equal or the target is Float and
\* the value is Int; every other pair is reported as an error; when either
\* type is Unknown no error is reported
AssignmentTypeRule ==
    (typing # Null /\ typing.form # "none") =>
        IF typing.target = "UNKNOWN" \/ typing.value = "UNKNOWN"
        THEN typing.analyzer.errors = <<>>
        ELSE (typing.analyzer.errors = <<>>) <=> assignable(typing.target, typing.value)

FloatIntoIntRejected ==
    /\ typing # Null
    /\ typing.form = "assignment"
    /\ typing.target = "INT"
    /\ typing.value = "FLOAT"
    /\ Len(typing.analyzer.errors) = 1

----------------------------------------------------------------------------
(* Calls of user functions *)

VoidText == <<"v", "o", "i", "d">>

\* a run that finished and logged these lines
ranAndLogged(log) == ranToEnd /\ executionResult.outputLog = log

\* C20: a call of a user function evaluates its arguments from left to
\* right (p(5) prints before p(3)), binds them to the parameters by position
\* (f(5, 3) computes 5 - 3) in a frame of its own (the caller's a keeps its
\* 7), binds a parameter without an argument to Void, ignores an argument
\* without a parameter, and yields the value of the Return it executed, or
\* Void when the body falls off its end
CallsBindByPosition ==
    /\ (source = ArgumentOrder /\ pc \in {"exit", "crashed"})
            => ranAndLogged(<< <<"5">>, <<"3">>, <<"2">> >>)
    /\ (source = MissingArgument /\ pc \in {"exit", "crashed"})
            => ranAndLogged(<< <<"5">>, VoidText, <<"5">> >>)
    /\ (source = SurplusArgument /\ pc \in {"exit", "crashed"})
            => ranAndLogged(<< <<"5">>, <<"7">> >>)
    /\ (source = PrintFallOffEnd /\ pc \in {"exit", "crashed"})
            => ranAndLogged(<< VoidText >>)
    /\ (source = ReturnInIf /\ pc \in {"exit", "crashed"})
            => ranAndLogged(<< <<"1">> >>)

MissingArgumentRan ==
    /\ source = MissingArgument
    /\ ranAndLogged(<< <<"5">>, VoidText, <<"5">> >>)

----------------------------------------------------------------------------
(* The known-constant mapping of constant propagation *)

\* the map constantPropagation holds when its scan reaches instruction i of c
RECURSIVE constantMapAt(_, _)
constantMapAt(c, i) ==
    IF i <= 1 THEN << >>
    ELSE Bind(constantMapAt(c, i - 1), LAMBDA m :
             trackConstant(propagateInstr(c[i - 1], m), m))

\* the position of the last instruction before i that writes name, 0 if none
RECURSIVE lastWriter(_, _, _)
lastWriter(c, i, name) ==
    IF i <= 1 THEN 0
    ELSE IF c[i - 1].result = name THEN i - 1
    ELSE lastWriter(c, i - 1, name)

isLiteralAssign(instr) == instr.op = "ASSIGN" /\ isConstant(instr.arg1)

\* the names whose most recent writer before i, in the list as the scan has
\* rewritten it, is an Assign of an integer literal
literallyAssigned(c, i) ==
    {c[j].result : j \in {k \in 1..(i - 1) :
        /\ lastWriter(c, i, c[k].result) = k
        /\ isLiteralAssign(c[k])}}

\* C21: at each instruction of the scan of constant propagation, the names in
\* the mapping are exactly those whose most recent preceding writer is an
\* Assign of an integer literal
ConstantMapIsExact ==
    pc = "propagate" =>
        \A i \in 1..(Len(code) + 1) :
            DOMAIN constantMapAt(code, i) = literallyAssigned(constantPropagation(code), i)

\* the list of Increment after propagation: a = t0 left a in the mapping, and
\* return a has become return 5
IncrementPropagated ==
    /\ pc = "simplify"
    /\ round = 1
    /\ input = CodeIncrement
    /\ code[4] = TAC("ASSIGN", <<"t", "0">>, <<>>, <<"a">>, 1)
    /\ code[5] = TAC("RETURN", <<"5">>, <<>>, <<>>, 0 - 1)

----------------------------------------------------------------------------
(* Constant folding *)

\* the values of a 32-bit int
inIntRange(n) == 0 - 2147483647 - 1 <= n /\ n <= 2147483647

Abs(n) == IF n < 0 THEN 0 - n ELSE n

\* n is the integer result of left op right, the quotient truncated toward
\* zero: the remainder is smaller than the divisor and has the sign of the
\* dividend
isResultOf(n, op, leftVal, rightVal) ==
    CASE op = "+" -> n = leftVal + rightVal
      [] op = "-" -> n = leftVal - rightVal
      [] op = "*" -> n = leftVal * rightVal
      [] op = "/" -> /\ Abs(leftVal - n * rightVal) < Abs(rightVal)
                     /\ (leftVal - n * rightVal = 0
                            \/ (leftVal - n * rightVal > 0) = (leftVal > 0))
      [] OTHER -> FALSE

isFoldable(instr) ==
    /\ instr.op \in {"+", "-", "*", "/"}
    /\ isConstant(instr.arg1)
    /\ isConstant(instr.arg2)

foldedAsClaimed(before, after) ==
    IF isFoldable(before)
    THEN (inIntRange(stoi(before.arg1)) /\ inIntRange(stoi(before.arg2)))
            => /\ after.op = "ASSIGN"
               /\ after.result = before.result
               /\ after.arg2 = <<>>
               /\ isConstant(after.arg1)
               /\ after.arg1 = to_string(stoi(after.arg1))
               /\ inIntRange(stoi(after.arg1))
               /\ isResultOf(stoi(after.arg1), before.op,
                             stoi(before.arg1), stoi(before.arg2))
    ELSE after = before

\* C22: constant folding replaces every + - * / on two integer literals by
\* an Assign of the decimal text of the operator's integer result, division
\* truncating toward zero, and leaves every other instruction unchanged
FoldingComputesTheResult ==
    [][ConstantFolding
        => /\ Len(code') = Len(code)
           /\ \A i \in 1..Len(code) : foldedAsClaimed(code[i], code'[i])]_vars

hasZeroDivisor(instr) == isFoldable(instr) /\ instr.op = "/" /\ stoi(instr.arg2) = 0

\* the same, for every instruction but a division by the literal zero, which
\* folds to an Assign of 0
FoldingExactButForZeroDivisor ==
    [][ConstantFolding
        => /\ Len(code') = Len(code)
           /\ \A i \in 1..Len(code) :
                IF hasZeroDivisor(code[i])
                THEN code'[i] = [code[i] EXCEPT !.op = "ASSIGN", !.arg1 = <<"0">>,
                                                !.arg2 = <<>>]
                ELSE foldedAsClaimed(code[i], code'[i])]_vars

\* the list of every literal form, folded
FoldingFolded ==
    /\ pc = "propagate"
    /\ round = 1
    /\ input = CodeFolding
    /\ code[4].arg1 = <<"-", "3">>
    /\ code[8] = TAC("ASSIGN", <<"0">>, <<>>, <<"t", "7">>, 1)

----------------------------------------------------------------------------
(* Plain execution of an instruction list: labels, goto, if and ifFalse, *)
(* assignment and integer arithmetic.  This is the meaning the instruction *)
(* names carry; the program has no executor for its instruction lists. *)

MaxSteps == 60

\* the value an operand stands for: a literal's integer, true and false as 1
\* and 0, a name's value, and initial for a name never written
operandValue(x, env, initial) ==
    IF x = <<>> THEN 0
    ELSE IF isConstant(x) THEN stoi(x)
    ELSE IF x = <<"t", "r", "u", "e">> THEN 1
    ELSE IF x = <<"f", "a", "l", "s", "e">> THEN 0
    ELSE IF x \in DOMAIN env THEN env[x]
    ELSE initial

truth(b) == IF b THEN 1 ELSE 0

isOperator(op) ==
    op \in {"+", "-", "*", "/", "%", "==", "!=", "<", "<=", ">", ">=", "&&", "||", "!"}

operatorFaults(instr, b) == instr.op \in {"/", "%"} /\ instr.arg2 # <<>> /\ b = 0

operatorValue(instr, a, b) ==
    IF instr.arg2 = <<>>
    THEN (IF instr.op = "-" THEN 0 - a ELSE truth(a = 0))
    ELSE CASE instr.op = "+" -> a + b
           [] instr.op = "-" -> a - b
           [] instr.op = "*" -> a * b
           [] instr.op = "/" -> TruncDiv(a, b)
           [] instr.op = "%" -> TruncMod(a, b)
           [] instr.op = "==" -> truth(a = b)
           [] instr.op = "!=" -> truth(a # b)
           [] instr.op = "<" -> truth(a < b)
           [] instr.op = "<=" -> truth(a <= b)
           [] instr.op = ">" -> truth(a > b)
           [] instr.op = ">=" -> truth(a >= b)
           [] instr.op = "&&" -> truth(a # 0 /\ b # 0)
           [] instr.op = "||" -> truth(a # 0 \/ b # 0)
           [] OTHER -> truth(a = 0)

\* where a jump to name lands: the first Label instruction of that name, and
\* past the end if there is none
labelPosition(c, name) ==
    IF \E i \in 1..Len(c) : c[i].op = "LABEL" /\ c[i].result = name
    THEN CHOOSE i \in 1..Len(c) :
            /\ c[i].op = "LABEL" /\ c[i].result = name
            /\ \A j \in 1..(i - 1) : ~(c[j].op = "LABEL" /\ c[j].result = name)
    ELSE Len(c) + 1

\* an execution: the position of the next instruction, the values of the
\* names, how it stands, the value it returned and its trace, which holds for
\* each instruction executed its position and the value of its first operand
Running(ip, env, trace) ==
    [ip |-> ip, env |-> env, outcome |-> "running", value |-> 0, trace |-> trace]

Stopped(outcome, value, env, trace) ==
    [ip |-> 0, env |-> env, outcome |-> outcome, value |-> value, trace |-> trace]

\* one instruction executed
step(c, x, initial) ==
    IF x.ip > Len(c) THEN Stopped("end", 0, x.env, x.trace)
    ELSE
    Bind(c[x.ip], LAMBDA instr :
    Bind(operandValue(instr.arg1, x.env, initial), LAMBDA a :
    Bind(operandValue(instr.arg2, x.env, initial), LAMBDA b :
    Bind(Append(x.trace, [at |-> x.ip, value |-> a]), LAMBDA t :
        CASE instr.op = "RETURN" -> Stopped("returned", a, x.env, t)
          [] instr.op = "GOTO" -> Running(labelPosition(c, instr.result), x.env, t)
          [] instr.op = "IF" ->
                Running(IF a # 0 THEN labelPosition(c, instr.result) ELSE x.ip + 1, x.env, t)
          [] instr.op = "IF_FALSE" ->
                Running(IF a = 0 THEN labelPosition(c, instr.result) ELSE x.ip + 1, x.env, t)
          [] instr.op = "ASSIGN" -> Running(x.ip + 1, MapPut(x.env, instr.result, a), t)
          [] instr.op = "CALL" -> Running(x.ip + 1, MapPut(x.env, instr.result, 0), t)
          [] isOperator(instr.op) ->
                IF operatorFaults(instr, b) THEN Stopped("fault", 0, x.env, t)
                ELSE Running(x.ip + 1, MapPut(x.env, instr.result, operatorValue(instr, a, b)), t)
          [] OTHER -> Running(x.ip + 1, x.env, t)))))

\* at most fuel instructions executed; an execution that has not stopped by
\* then is left running
RECURSIVE steps(_, _, _, _)
steps(c, x, initial, fuel) ==
    IF x.outcome # "running" \/ fuel = 0 THEN x
    ELSE steps(c, step(c, x, initial), initial, fuel - 1)

runFrom(c, ip, initial) == steps(c, Running(ip, << >>, <<>>), initial, MaxSteps)

\* the function an execution enters: main, and the first instruction of a
\* list without it
entry(c) ==
    IF \E i \in 1..Len(c) : c[i].op = "LABEL" /\ c[i].result = <<"m", "a", "i", "n">>
    THEN labelPosition(c, <<"m", "a", "i", "n">>)
    ELSE 1

runList(c, initial) == runFrom(c, entry(c), initial)

\* the values every name never written starts with
InitialValues == {0, 1, 5}

----------------------------------------------------------------------------
(* The lowering of while and if *)

MaxCounter == 6

RECURSIVE statementsWithin(_, _)

\* the statements a statement holds
nestedStatements(stmt) ==
    CASE stmt.kind = "If" ->
            statementsWithin(stmt.thenBranch, 1) \cup statementsWithin(stmt.elseBranch, 1)
      [] stmt.kind = "While" -> statementsWithin(stmt.body, 1)
      [] stmt.kind = "Block" -> statementsWithin(stmt.statements, 1)
      [] OTHER -> {}

\* the statements of a list from index i, nested ones included
statementsWithin(stmts, i) ==
    IF i > Len(stmts) THEN {}
    ELSE {stmts[i]} \cup nestedStatements(stmts[i]) \cup statementsWithin(stmts, i + 1)

statementsOf(prog) ==
    UNION {statementsWithin(prog.functions[i].body, 1) : i \in 1..Len(prog.functions)}

\* a generator with an empty list and the given counters
GenAt(temps, labels) == [code |-> <<>>, tempCounter |-> temps, labelCounter |-> labels]

labelText(n) == <<"L">> \o to_string(n)

\* the parts of the shape of a while: the body's instructions generated with
\* three labels taken, then the condition's
whileBody(w, temps, labels) == generateStatements(GenAt(temps, labels + 3), w.body, 1)

whileCondition(w, temps, labels) ==
    Bind(whileBody(w, temps, labels), LAMBDA b :
        generateExpression([b EXCEPT !.code = <<>>], w.condition))

\* Goto condLabel; Label startLabel; body; Label condLabel; condition;
\* If cond, startLabel; Label endLabel
whileShape(w, temps, labels) ==
    <<TAC("GOTO", <<>>, <<>>, labelText(labels + 1), w.line),
      TAC("LABEL", <<>>, <<>>, labelText(labels), w.line)>>
    \o whileBody(w, temps, labels).code
    \o <<TAC("LABEL", <<>>, <<>>, labelText(labels + 1), w.line)>>
    \o whileCondition(w, temps, labels).g.code
    \o <<TAC("IF", whileCondition(w, temps, labels).name, <<>>, labelText(labels), w.line),
         TAC("LABEL", <<>>, <<>>, labelText(labels + 2), w.line)>>

\* list holds part as a run of consecutive instructions
occursIn(list, part) ==
    \E p \in 0..(Len(list) - Len(part)) : SubSeq(list, p + 1, p + Len(part)) = part

\* the number of Label instructions of a list that define name
definitionsOf(list, name) ==
    Cardinality({i \in 1..Len(list) : list[i].op = "LABEL" /\ list[i].result = name})

\* the generated list holds the while in its shape, for some values of the
\* counters, and each of its three labels is defined once in it
loweredAsWhile(list, w) ==
    \E temps \in 0..MaxCounter, labels \in 0..MaxCounter :
        /\ occursIn(list, whileShape(w, temps, labels))
        /\ \A k \in 0..2 : definitionsOf(whileShape(w, temps, labels), labelText(labels + k)) = 1

\* what the paths through the shape of a while do, on a trace of an
\* execution of the shape alone: positions 2 to bodyEnd are the start label
\* and the body, ifAt the If, ifAt + 1 the end label
whilePaths(trace, bodyEnd, ifAt) ==
    \A k \in 1..Len(trace) :
        /\ trace[k].at \in 2..bodyEnd => \E j \in 1..(k - 1) : trace[j].at = ifAt
        /\ trace[k].at = 2 => trace[k - 1].at = ifAt /\ trace[k - 1].value # 0
        /\ trace[k].at \in 3..bodyEnd => trace[k - 1].at \in 2..bodyEnd
        /\ trace[k].at = ifAt + 1 => trace[k - 1].at = ifAt /\ trace[k - 1].value = 0

whileRuns(w, initial) ==
    Bind(whileShape(w, 0, 0), LAMBDA shape :
        whilePaths(runFrom(shape, 1, initial).trace,
                   2 + Len(whileBody(w, 0, 0).code), Len(shape) - 1))

whileStatements(prog) == {s \in statementsOf(prog) : s.kind = "While"}

ifCondition(s, temps, labels) == generateExpression(GenAt(temps, labels), s.condition)

ifThen(s, temps, labels) ==
    Bind(ifCondition(s, temps, labels).g, LAMBDA c :
        generateStatements([c EXCEPT !.code = <<>>, !.labelCounter = @ + 2], s.thenBranch, 1))

ifElse(s, temps, labels) ==
    Bind(ifThen(s, temps, labels), LAMBDA t :
        generateStatements([t EXCEPT !.code = <<>>], s.elseBranch, 1))

\* condition; IfFalse cond, elseLabel; then branch; Goto endLabel;
\* Label elseLabel; else branch; Label endLabel
ifShape(s, temps, labels) ==
    ifCondition(s, temps, labels).g.code
    \o <<TAC("IF_FALSE", ifCondition(s, temps, labels).name, <<>>, labelText(labels), s.line)>>
    \o ifThen(s, temps, labels).code
    \o <<TAC("GOTO", <<>>, <<>>, labelText(labels + 1), s.line),
         TAC("LABEL", <<>>, <<>>, labelText(labels), s.line)>>
    \o ifElse(s, temps, labels).code
    \o <<TAC("LABEL", <<>>, <<>>, labelText(labels + 1), s.line)>>

loweredAsIf(list, s) ==
    \E temps \in 0..MaxCounter, labels \in 0..MaxCounter :
        /\ occursIn(list, ifShape(s, temps, labels))
        /\ \A k \in 0..1 : definitionsOf(ifShape(s, temps, labels), labelText(labels + k)) = 1

visits(trace, from, to) == \E k \in 1..Len(trace) : trace[k].at \in from..to

\* what the paths through the shape of an if do, on an execution of the
\* shape alone: testAt is the IfFalse, gotoAt the Goto, gotoAt + 1 the else
\* label, endAt the end label
ifPaths(x, testAt, gotoAt, endAt) ==
    /\ \A k \in 1..Len(x.trace) :
        /\ (x.trace[k].at = testAt /\ x.trace[k].value # 0)
            => /\ k < Len(x.trace) /\ x.trace[k + 1].at = testAt + 1
               /\ ~visits(x.trace, gotoAt + 1, endAt - 1)
        /\ (x.trace[k].at = testAt /\ x.trace[k].value = 0)
            => /\ k < Len(x.trace) /\ x.trace[k + 1].at = gotoAt + 1
               /\ ~visits(x.trace, testAt + 1, gotoAt)
        /\ x.trace[k].at = endAt => x.trace[k - 1].at \in {gotoAt, endAt - 1}
    /\ x.outcome = "end" => x.trace[Len(x.trace)].at = endAt
    /\ x.outcome # "running"

ifRuns(s, initial) ==
    Bind(ifShape(s, 0, 0), LAMBDA shape :
    Bind(Len(ifCondition(s, 0, 0).g.code) + 1, LAMBDA testAt :
        ifPaths(runFrom(shape, 1, initial), testAt,
                testAt + Len(ifThen(s, 0, 0).code) + 1, Len(shape))))

ifStatements(prog) == {s \in statementsOf(prog) : s.kind = "If"}

----------------------------------------------------------------------------
(* The code generator called again: generate() is a public member, and a *)
(* caller that keeps the CodeGenerator can call it a second time *)

\* a second call of generate on the CodeGenerator of main, with the same
\* program; intermediateCode still holds what the first call returned
GenerateAgain ==
    /\ pc = "optimize"
    /\ codegen' = generate(codegen, program)
    /\ pc' = "generated"
    /\ UNCHANGED <<ubCast, ubParent, source, enableOptimization, lexer, tokens, program,
                   semantic, intermediateCode, finalCode, executionResult, interpreter,
                   finalOutput, stdout, exitStatus>>
    /\ UNCHANGED optimizerVars
    /\ UNCHANGED tableVars
    /\ UNCHANGED typeVars

GenNext ==
    \/ Lex
    \/ Parse
    \/ Analyze
    \/ Generate
    \/ GenerateAgain

GenSpec == MainInit /\ [][GenNext]_vars

\* the instructions whose result the generator took from newTemp: operators,
\* calls and the Assign that starts a sequence
definesTemporary(instr) ==
    \/ isOperator(instr.op)
    \/ instr.op = "CALL"
    \/ (instr.op = "ASSIGN" /\ instr.arg1 = <<"[", "]">>)

temporaryDefinitions(list) == {i \in 1..Len(list) : definesTemporary(list[i])}

\* the Label instructions of a list that do not start a function
generatedLabels(list, prog) ==
    Cardinality({i \in 1..Len(list) : list[i].op = "LABEL"}) - Len(prog.functions)

functionsNamed(prog, name) ==
    Cardinality({i \in 1..Len(prog.functions) : prog.functions[i].name.lexeme = name})

\* temporaries t0, t1, ... and labels L0, L1, ... up to the counters the run
\* left, each taken once
numberedFromZero(g, prog) ==
    /\ Cardinality(temporaryDefinitions(g.code)) = g.tempCounter
    /\ {g.code[i].result : i \in temporaryDefinitions(g.code)}
            = {<<"t">> \o to_string(n) : n \in 0..(g.tempCounter - 1)}
    /\ generatedLabels(g.code, prog) = g.labelCounter
    /\ \A n \in 0..(g.labelCounter - 1) :
            definitionsOf(g.code, labelText(n)) - functionsNamed(prog, labelText(n)) = 1

\* C25: a generation run numbers its temporaries and labels consecutively
\* from 0 and takes no name twice, and a second call of generate on the same
\* generator with the same program returns the list the first returned
GenerationRunsStartAfresh ==
    /\ pc \in {"optimize", "generated"} => numberedFromZero(codegen, program)
    /\ pc = "generated" => codegen.code = intermediateCode

\* the second run on LoopWithIf, which takes four temporaries and five labels
LoopWithIfGeneratedTwice ==
    /\ pc = "generated"
    /\ source = LoopWithIf
    /\ codegen.tempCounter = 4
    /\ codegen.labelCounter = 5
    /\ codegen.code = intermediateCode
    /\ Len(intermediateCode) = 18

----------------------------------------------------------------------------
(* Block statements in the code generator *)

RECURSIVE flattenStatements(_, _)

\* a statement with every Block in it replaced by the statements it holds
flattenStatement(stmt) ==
    CASE stmt.kind = "Block" -> flattenStatements(stmt.statements, 1)
      [] stmt.kind = "If" ->
            <<[stmt EXCEPT !.thenBranch = flattenStatements(@, 1),
                           !.elseBranch = flattenStatements(@, 1)]>>
      [] stmt.kind = "While" -> <<[stmt EXCEPT !.body = flattenStatements(@, 1)]>>
      [] OTHER -> <<stmt>>

flattenStatements(stmts, i) ==
    IF i > Len(stmts) THEN <<>>
    ELSE flattenStatement(stmts[i]) \o flattenStatements(stmts, i + 1)

flattenProgram(prog) ==
    [prog EXCEPT !.functions =
        [i \in 1..Len(prog.functions) |->
            [prog.functions[i] EXCEPT !.body = flattenStatements(@, 1)]]]

blockStatements(prog) == {s \in statementsOf(prog) : s.kind = "Block"}

\* C26: the generated list holds, for a Block, the lowering of the
\* statements it contains in order and nothing for the block itself: it is
\* the list of the program with every Block replaced by its statements
BlocksAreGenerated ==
    pc = "optimize" => intermediateCode = generate(GenInit, flattenProgram(program)).code

\* ReturnInBlock interpreted and generated: f returned its argument from
\* inside a block, and the list has no Return for it
BlockRunButNotGenerated ==
    /\ source = ReturnInBlock
    /\ ranToEnd
    /\ executionResult.outputLog = <<<<"3">>>>
    /\ blockStatements(program) # {}
    /\ intermediateCode[1].result = <<"f">>
    /\ intermediateCode[3].op = "LABEL"
    /\ \A i \in 1..Len(intermediateCode) :
            intermediateCode[i].op = "RETURN" => intermediateCode[i].arg1 = <<"0">>

----------------------------------------------------------------------------
(* The meaning of the optimized list *)

writesVariable(instr) == instr.op \in {"ASSIGN", "CALL"} \/ isOperator(instr.op)

\* the names a list writes that the generator did not take from newTemp
userVariables(c) ==
    {c[i].result : i \in {j \in 1..Len(c) :
        writesVariable(c[j]) /\ ~isTemporaryName(c[j].result)}}

\* the execution of optimized returns what the execution of plain returned,
\* with the same values of the user-named variables
sameReturn(plain, optimized, names, initial) ==
    plain.outcome = "returned" =>
        /\ optimized.outcome = "returned"
        /\ optimized.value = plain.value
        /\ \A name \in names :
                operandValue(name, optimized.env, initial)
                    = operandValue(name, plain.env, initial)

functionLabels(prog) == {prog.functions[i].name.lexeme : i \in 1..Len(prog.functions)}

preservesMeaning(plain, optimized, prog) ==
    \A initial \in InitialValues, f \in functionLabels(prog) :
        sameReturn(runFrom(plain, labelPosition(plain, f), initial),
                   runFrom(optimized, labelPosition(optimized, f), initial),
                   userVariables(plain), initial)

\* C27: executed under the plain semantics from the same initial values, from
\* the label of any function, the optimized list reaches a Return whenever
\* the generated list does, with the same returned value and the same values
\* of the user-named variables
OptimizerPreservesMeaning ==
    (pc = "interpret" /\ enableOptimization)
        => preservesMeaning(intermediateCode, finalCode, program)

\* Increment optimized: the generated list returns 6 and the optimized list 5
IncrementOptimized ==
    /\ pc = "interpret"
    /\ enableOptimization
    /\ source = Increment
    /\ runList(intermediateCode, 0).outcome = "returned"
    /\ runList(intermediateCode, 0).value = 6
    /\ runList(finalCode, 0).outcome = "returned"
    /\ runList(finalCode, 0).value = 5

\* IfElse optimized: the generated list takes the then branch and returns 3,
\* the optimized list returns the 4 of the else branch
IfElseOptimized ==
    /\ pc = "interpret"
    /\ enableOptimization
    /\ source = IfElse
    /\ runList(intermediateCode, 0).value = 3
    /\ runList(finalCode, 0).outcome = "returned"
    /\ runList(finalCode, 0).value = 4

\* Loop optimized: the generated list leaves the loop and returns 2, the
\* optimized list tests 0 < 2 for ever
LoopOptimized ==
    /\ pc = "interpret"
    /\ enableOptimization
    /\ source = Loop
    /\ runList(intermediateCode, 0).outcome = "returned"
    /\ runList(intermediateCode, 0).value = 2
    /\ runList(finalCode, 0).outcome = "running"

----------------------------------------------------------------------------
(* Uses and definitions of temporaries in the optimized list *)

\* the names of the argument list of a Call, which joins them with ", "
RECURSIVE splitArguments(_, _, _)
splitArguments(text, i, name) ==
    IF i > Len(text) THEN (IF name = <<>> THEN {} ELSE {name})
    ELSE IF text[i] = "," THEN {name} \cup splitArguments(text, i + 1, <<>>)
    ELSE IF text[i] = " " /\ name = <<>> THEN splitArguments(text, i + 1, <<>>)
    ELSE splitArguments(text, i + 1, Append(name, text[i]))

\* the names an instruction uses: its read operands, the arguments of a Call
\* and the target of a STORE
usedNames(instr) ==
    CASE instr.op = "CALL" -> splitArguments(instr.arg2, 1, <<>>)
      [] instr.op = "STORE" -> {instr.arg1, instr.result}
      [] instr.op \in {"LABEL", "GOTO"} -> {}
      [] OTHER -> {instr.arg1, instr.arg2}

usedTemporaries(c) ==
    {name \in UNION {usedNames(c[i]) : i \in 1..Len(c)} : isTemporaryName(name)}

writtenNames(c) == {c[i].result : i \in {j \in 1..Len(c) : writesVariable(c[j])}}

everyUseIsDefined(c) == usedTemporaries(c) \subseteq writtenNames(c)

\* C28: if every temporary the generated list uses is written in it, every
\* temporary the optimized list uses, as an operand, in the argument list of a
\* Call or as the target of a STORE, is written in the optimized list
OptimizerKeepsDefinitions ==
    (pc = "interpret" /\ enableOptimization /\ everyUseIsDefined(intermediateCode))
        => everyUseIsDefined(finalCode)

\* CallOfSums optimized: the Call still names t1 and t2, and no instruction
\* of the list writes them
CallOfSumsOptimized ==
    /\ pc = "interpret"
    /\ enableOptimization
    /\ source = CallOfSums
    /\ everyUseIsDefined(intermediateCode)
    /\ usedTemporaries(finalCode) = {<<"t", "0">>, <<"t", "1">>, <<"t", "2">>}
    /\ writtenNames(finalCode) \cap usedTemporaries(finalCode) = {<<"t", "0">>}

----------------------------------------------------------------------------
(* The caller's environment across a call *)

\* the names some frame of a scope stack holds
visibleNames(scopes) == UNION {DOMAIN scopes[i] : i \in 1..Len(scopes)}

\* what a name resolves to: its value in the innermost frame that holds it
resolve(scopes, name) == scopes[frameOf(scopes, name)][name]

\* every name the caller saw resolves as before, no other name is visible,
\* and the innermost frame, where a declaration lands, is the caller's
environmentKept(call) ==
    /\ \A name \in visibleNames(call.scopesBefore) :
            /\ name \in visibleNames(call.scopesAfter)
            /\ resolve(call.scopesAfter, name) = resolve(call.scopesBefore, name)
    /\ visibleNames(call.scopesAfter) \subseteq visibleNames(call.scopesBefore)
    /\ Len(call.scopesAfter) = Len(call.scopesBefore)

\* C29: after every user function call that returned or fell off the end,
\* the caller's variables resolve to the values they had before the call, no
\* parameter or local of the callee is visible, and the innermost frame is
\* the caller's
CallLeavesCallerEnvironment ==
    \A i \in 1..Len(finishedCalls) : environmentKept(finishedCalls[i])

\* ShadowAfterCall run: after f(1) returned from inside its if, the caller's
\* x resolves to the parameter of f, and print x logs 1
ShadowAfterCallRan ==
    /\ source = ShadowAfterCall
    /\ ranToEnd
    /\ executionResult.outputLog = <<<<"1">>>>
    /\ Len(finishedCalls) = 2
    /\ finishedCalls[1].name = <<"f">>
    /\ finishedCalls[1].how = "return"
    /\ Len(finishedCalls[1].scopesAfter) = Len(finishedCalls[1].scopesBefore) + 1

----------------------------------------------------------------------------
(* Labels and jump targets of the generated list *)

\* where the code of function i starts in the list generated for prog: after
\* the code of the functions before it
functionStart(prog, i) ==
    Len(generate(GenInit, [prog EXCEPT !.functions = SubSeq(@, 1, i - 1)]).code) + 1

functionStarts(prog) == {functionStart(prog, i) : i \in 1..Len(prog.functions)}

\* the start of the function whose code holds position p
functionAt(prog, p) ==
    CHOOSE s \in functionStarts(prog) :
        /\ s <= p
        /\ \A other \in functionStarts(prog) : other <= p => other <= s

labelsAt(list) == {i \in 1..Len(list) : list[i].op = "LABEL"}

jumpsAt(list) == {i \in 1..Len(list) : list[i].op \in {"GOTO", "IF", "IF_FALSE"}}

\* the Label instructions the generator emitted for newLabel names
generatedLabelsAt(list, prog) == labelsAt(list) \ functionStarts(prog)

labelsAreDistinct(list, prog) ==
    \A i \in generatedLabelsAt(list, prog), j \in generatedLabelsAt(list, prog) :
        i # j => list[i].result # list[j].result

jumpsAreResolved(list, prog) ==
    \A p \in jumpsAt(list) :
        \E d \in labelsAt(list) :
            /\ list[d].result = list[p].result
            /\ \A other \in labelsAt(list) : list[other].result = list[p].result => other = d
            /\ functionAt(prog, d) = functionAt(prog, p)

\* C30: in the generated list the labels taken from newLabel are pairwise
\* distinct, and every Goto, If and IfFalse names a label that exactly one
\* Label instruction defines, in the code of the same function
LabelsAreUnique ==
    pc = "optimize" =>
        /\ labelsAreDistinct(intermediateCode, program)
        /\ jumpsAreResolved(intermediateCode, program)

\* LabelName generated: the IfFalse of function L0 names L0, which the
\* function's own label and the else label both define
LabelNameGenerated ==
    /\ pc = "optimize"
    /\ source = LabelName
    /\ intermediateCode[3].op = "IF_FALSE"
    /\ intermediateCode[3].result = <<"L", "0">>
    /\ {d \in labelsAt(intermediateCode) : intermediateCode[d].result = <<"L", "0">>} = {1, 6}
    /\ functionStarts(program) = {1, 9}
    /\ labelsAreDistinct(intermediateCode, program)

=============================================================================
